---- MODULE Spec2Model ----
(***************************************************************************)
(* Delivery orchestrator and retrying sender of the GobbleData backend.    *)
(*                                                                         *)
(* Spec      : the hourly job runDailyInsightsJob with its per-subscriber  *)
(*             tasks processDailyInsightsForUser (scheduler.service.js).   *)
(* SpecRetry : the loop of retryEmailSend, one await per step.             *)
(*                                                                         *)
(* Time is counted in whole hours since an arbitrary Sunday 00:00 of the   *)
(* server's clock.  One step of a task is one numbered step of the source. *)
(***************************************************************************)
EXTENDS Integers, Sequences, FiniteSets, Bags, TLC

(***************************************************************************)
(* Bounds of the model                                                     *)
(***************************************************************************)
MaxTicks == 2         \* invocations of runDailyInsightsJob in one behaviour
MaxRequests == 2      \* requests to the connection routes in one behaviour
MaxCalls == 2         \* invocations of analyzeMetrics in one behaviour
MaxDays == 22         \* samples of a series of constant value
Precision == 5        \* bits of the significand of a number (a double has 53)
GuardBits == 3        \* zero bits below the significand of a sample

(***************************************************************************)
(* Program constants                                                       *)
(***************************************************************************)
HoursPerDay == 24          \* 1000 * 60 * 60 * 24 ms, counted in hours
DaysPerWeek == 7
StarterIntervalDays == 7   \* shouldSendReport: daysSinceLastEmail < 7
NoInsightsIntervalDays == 7 \* "no insights yet": daysSinceLastEmail >= 7
NoInsightsMinHours == 24   \* "no insights yet": hoursSinceConnection >= 24
NeverSentDays == 999       \* daysSinceLastEmail when nothing was sent yet
WindowHours == 1           \* hourDiff <= 1
HalfDayHours == 12         \* hourDiff > 12 wraps around
TopN == 3                  \* insights.slice(0, 3)
TokenLifetimeHours == 1    \* Date.now() + 3600 * 1000
TickHours == 1             \* cron schedule "0 * * * *"
Z_SCORE_THRESHOLD == 20    \* 2.0, in tenths
MIN_DATA_POINTS == 7
TREND_WINDOW == 5
RecentDays == 3            \* sortedData.slice(-3)
TopInsights == 5           \* significantInsights.slice(0, 5)
SlopeLimit == 1            \* Math.abs(slope) > 0.1, in tenths

NULL == "null"            \* null / undefined of a string or object
NoTime == 0 - 1            \* null of a timestamp or a number
NoRun == 0                 \* runId = null (row ids start at 1)
Users == {"u1", "u2"}
UserOrder == <<"u1", "u2">>      \* row order of email_preferences
Tiers == {"starter", "growth", "pro", "enterprise"}
DayNames == <<"Sun", "Mon", "Tue", "Wed", "Thu", "Fri", "Sat">>
AllDays == {DayNames[i] : i \in 1..DaysPerWeek}

VARIABLES
  now,                \* Date.now(), in hours
  ticks,              \* number of job invocations so far
  user_profiles,      \* table user_profiles, one row per user
  email_preferences,  \* table email_preferences, one row per user
  ga4_connections,    \* table ga4_connections, a set of rows
  daily_insights,     \* table daily_insights, a bag of rows
  user_email_logs,    \* table user_email_logs, a set of rows
  cron_job_runs,      \* table cron_job_runs, a sequence of rows (id = index)
  outbox,             \* emails the email collaborator accepted
  phase,              \* position of runDailyInsightsJob
  runId,              \* local runId of the current invocation
  preferences,        \* local preferences (enumerated user ids)
  usersToProcess,     \* local usersToProcess
  filterIdx,          \* position of the delivery-time filter loop
  task,               \* the promises of processDailyInsightsForUser
  summary,            \* local summary
  retval,             \* value the invocation returned
  rpc,                \* retryEmailSend: position
  attempt,            \* retryEmailSend: loop variable attempt
  sendLog,            \* retryEmailSend: outcomes of the calls of emailFunction
  waits,              \* retryEmailSend: delays slept so far, in ms
  rret,               \* retryEmailSend: returned value
  requests,           \* HTTP requests of the connection routes served so far
  gpc,                \* delivery-time check: position
  gCurrentHours,      \* delivery-time check: hour in the user's timezone
  gPrefHours,         \* delivery-time check: preferred hour
  withinWindow,       \* delivery-time check: the value of isWithinWindow
  calls,              \* overlapping calls of processDailyInsightsForUser
  issued,             \* access tokens the OAuth server issued to those calls
  dailyData,          \* analysis engine: the argument of analyzeMetrics
  analyses,           \* analysis engine: the lists its invocations returned
  zArg,               \* analysis engine: the argument of zScoreToConfidence
  label               \* analysis engine: the value of zScoreToConfidence

jobVars == <<now, ticks, user_profiles, email_preferences, ga4_connections,
             daily_insights, user_email_logs, cron_job_runs, outbox, phase,
             runId, preferences, usersToProcess, filterIdx, task, summary,
             retval>>
retryVars == <<rpc, attempt, sendLog, waits, rret>>
routeVars == <<requests>>
gateVars == <<gpc, gCurrentHours, gPrefHours, withinWindow>>
overlapVars == <<calls, issued>>
engineVars == <<dailyData, analyses, zArg, label>>
notJobVars == <<retryVars, routeVars, gateVars, overlapVars, engineVars>>
notRetryVars == <<jobVars, routeVars, gateVars, overlapVars, engineVars>>
vars == <<jobVars, retryVars, routeVars, gateVars, overlapVars, engineVars>>

(***************************************************************************)
(* Calendar helpers                                                        *)
(***************************************************************************)
\* new Date().getDay() of the server clock, as the name daysMap gives it
Today(t) == t \div HoursPerDay
DayName(t) == DayNames[(Today(t) % DaysPerWeek) + 1]

\* toLocaleString(..., {timeZone, hour12: false, hour: "2-digit"}) -> hour
LocalHour(t, tz) == (t + tz) % HoursPerDay

Abs(x) == IF x < 0 THEN -x ELSE x

\* shouldSendReportToday(reportDays)
shouldSendReportToday(reportDays, t) == DayName(t) \in reportDays

\* getLookbackDays(subscriptionTier)
getLookbackDays(subscriptionTier) ==
  CASE subscriptionTier = "starter" -> 14
    [] subscriptionTier = "growth" -> 30
    [] subscriptionTier = "pro" -> 60
    [] subscriptionTier = "enterprise" -> 90
    [] OTHER -> 14

\* a gate without the weekly floor of the lowest tier
shouldSendReportNoFloor(subscriptionTier, lastEmailSentAt, t) == TRUE

\* a weekly limit that is applied to every tier
shouldSendReportAnyTier(subscriptionTier, lastEmailSentAt, t) ==
  IF lastEmailSentAt # NoTime
     /\ t - lastEmailSentAt < StarterIntervalDays * HoursPerDay
  THEN FALSE
  ELSE TRUE

\* shouldSendReport(subscriptionTier, lastEmailSentAt, frequency):
\* (Date.now() - lastEmailSentAt) / 24h < 7  <=>  hours < 7 * 24
shouldSendReport(subscriptionTier, lastEmailSentAt, t) ==
  IF subscriptionTier = "starter" /\ lastEmailSentAt # NoTime
     /\ t - lastEmailSentAt < StarterIntervalDays * HoursPerDay
  THEN FALSE
  ELSE TRUE

\* the difference of the two hours without the wraparound at midnight
HourDiffLinear(currentHours, prefHours) == Abs(currentHours - prefHours)

\* the hour test of shouldSendEmailNow
HourDiff(currentHours, prefHours) ==
  LET d == Abs(currentHours - prefHours)
  IN IF d > HalfDayHours THEN HoursPerDay - d ELSE d

isWithinWindow(currentHours, prefHours) ==
  HourDiff(currentHours, prefHours) <= WindowHours


(***************************************************************************)
(* Storage rows and the subscribers of the model                           *)
(***************************************************************************)
StartHour == 2 * HoursPerDay + 15     \* a Tuesday, 15:00 server time

\* delivery_time (hour of "HH:00:00") and timezone (offset to the server
\* clock) of the two subscribers; u2 lives 8 hours east and prefers 23:00
\* local time, which is 15:00 on the server
DeliveryTime == [u \in Users |-> IF u = "u1" THEN 14 ELSE 23]
Timezone == [u \in Users |-> IF u = "u1" THEN 0 ELSE 8]

\* a timezone the runtime does not know (toLocaleString throws a
\* RangeError): an offset no zone has
InvalidZone == HoursPerDay

NoDays == {NULL}                  \* report_days = null

\* the rows a subscriber may start with: subscription, preferences and the
\* age of the connection
Subscriber(tier, status, enabled, days, lastSent, connectedAt, expiresAt) ==
  [subscription_tier |-> tier, subscription_status |-> status,
   enabled |-> enabled, report_days |-> days,
   last_email_sent_at |-> lastSent, created_at |-> connectedAt,
   token_expires_at |-> expiresAt]

Subscribers ==
  { Subscriber("growth", "active", TRUE, NoDays, NoTime, 0, 0),
    Subscriber("pro", "active", TRUE, AllDays, NoTime,
               StartHour - 23, StartHour + HoursPerDay),
    Subscriber("starter", "active", TRUE, AllDays,
               StartHour - 3 * HoursPerDay, 0, StartHour + HoursPerDay),
    Subscriber("starter", "active", TRUE, AllDays,
               StartHour - StarterIntervalDays * HoursPerDay,
               0, StartHour + HoursPerDay),
    Subscriber("enterprise", "canceled", TRUE,
               AllDays \ {DayName(StartHour)}, NoTime, 0, 0),
    Subscriber("pro", "active", FALSE, AllDays, NoTime, 0, 0),
    Subscriber("growth", "active", TRUE, AllDays \ {DayName(StartHour)},
               NoTime, 0, 0) }

\* GA4 properties a user may connect, and the id of the row of a pair
\* (user_id, property_id); every subscriber starts with the first property
Properties == {"p1", "p2"}
FirstProperty == "p1"
ConnectionId == [u \in Users |-> IF u = "u1" THEN "c1" ELSE "c2"]
RowId(u, p) ==
  IF p = FirstProperty THEN ConnectionId[u]
  ELSE IF u = "u1" THEN "c3" ELSE "c4"

InitToken == [src |-> "oauth", at |-> 0]
NoToken == [src |-> "none", at |-> 0]

NoResult == [userId |-> NULL, success |-> FALSE, error |-> NULL,
             insightsCount |-> 0]

\* a promise of processDailyInsightsForUser with the locals of its frame
NoTask == [pc |-> "none", status |-> "none", value |-> NoResult,
           tier |-> NULL, lastSent |-> NoTime, connId |-> NULL,
           accessToken |-> NoToken, usedToken |-> NoToken, series |-> NULL,
           insights |-> <<>>, emailed |-> <<>>, trace |-> <<>>]

NoReturn == [path |-> "none", success |-> FALSE, error |-> NULL,
             summary |-> [total |-> 0, skipped |-> 0, successful |-> 0,
                          failed |-> 0, results |-> <<>>]]

NoSummary == [total |-> 0, skipped |-> 0, successful |-> 0, failed |-> 0,
              results |-> <<>>]

\* the tables before the first tick; deliveryTime and timezone are the
\* delivery_time and timezone columns of the preference rows
JobStartAt(sub, deliveryTime, timezone) ==
  /\ now = StartHour
  /\ ticks = 0
  /\   /\ user_profiles =
            [u \in Users |->
               [subscription_tier |-> sub[u].subscription_tier,
                subscription_status |-> sub[u].subscription_status]]
       /\ email_preferences =
            [u \in Users |->
               [enabled |-> sub[u].enabled,
                delivery_time |-> deliveryTime[u],
                timezone |-> timezone[u],
                report_days |-> sub[u].report_days,
                last_email_sent_at |-> sub[u].last_email_sent_at]]
       /\ ga4_connections =
            { [id |-> ConnectionId[u], user_id |-> u,
               property_id |-> FirstProperty, is_active |-> TRUE,
               created_at |-> sub[u].created_at,
               access_token |-> InitToken,
               token_expires_at |-> sub[u].token_expires_at] : u \in Users }
  /\ daily_insights = EmptyBag
  /\ user_email_logs = {}
  /\ cron_job_runs = <<>>
  /\ outbox = {}
  /\ phase = "idle"
  /\ runId = NoRun
  /\ preferences = <<>>
  /\ usersToProcess = <<>>
  /\ filterIdx = 0
  /\ task = [u \in Users |-> NoTask]
  /\ summary = NoSummary
  /\ retval = NoReturn

JobStart(sub) == JobStartAt(sub, DeliveryTime, Timezone)

JobInit == \E sub \in [Users -> Subscribers] : JobStart(sub)

NoSendResult == [success |-> FALSE, error |-> NULL, emailId |-> NULL,
                 attempts |-> 0]

RetryIdle ==
  /\ rpc = "idle"
  /\ attempt = 0
  /\ sendLog = <<>>
  /\ waits = <<>>
  /\ rret = NoSendResult

RoutesIdle == requests = 0

GateIdle ==
  /\ gpc = "idle"
  /\ gCurrentHours = 0
  /\ gPrefHours = 0
  /\ withinWindow = FALSE

\* the invocations that overlap, and the frame of one that has not started
OverlapRuns == {1, 2}

NoCall == [pc |-> "none", tier |-> NULL, connId |-> NULL,
           accessToken |-> NoToken, newToken |-> NoToken, wrote |-> FALSE,
           result |-> NoResult]

OverlapIdle ==
  /\ calls = [r \in OverlapRuns |-> NoCall]
  /\ issued = 0

\* dailyData = undefined
NoData == [missing |-> TRUE, rows |-> <<>>]

NoZScore == [sign |-> 0, num |-> 0, den |-> 0]

EngineIdle ==
  /\ dailyData = NoData
  /\ analyses = <<>>
  /\ zArg = NoZScore
  /\ label = 0

Init ==
  /\ JobInit /\ RetryIdle /\ RoutesIdle /\ GateIdle /\ OverlapIdle
  /\ EngineIdle

(***************************************************************************)
(* runDailyInsightsJob, up to the fan-out                                  *)
(***************************************************************************)
\* .update({...}).eq("id", runId) on cron_job_runs
UpdateRun(runs, id, fields) ==
  [runs EXCEPT ![id] = [f \in DOMAIN runs[id] |->
                          IF f \in DOMAIN fields THEN fields[f] ELSE runs[id][f]]]

Return(v) ==
  /\ retval' = v
  /\ phase' = "returned"

\* lines 442-461: insert the run row; a failed insert leaves runId null
CreateRunLog ==
  /\ phase = "idle"
  /\ ticks < MaxTicks
  /\ ticks' = ticks + 1
  /\ \E logError \in BOOLEAN :
       IF logError
       THEN /\ runId' = NoRun
            /\ UNCHANGED cron_job_runs
       ELSE /\ cron_job_runs' = Append(cron_job_runs,
                 [status |-> "running", started_at |-> now,
                  completed_at |-> NoTime, users_processed |-> NoTime,
                  emails_sent |-> NoTime, insights_found |-> NoTime,
                  errors |-> NULL])
            /\ runId' = Len(cron_job_runs) + 1
  /\ phase' = "enumerate"
  /\ UNCHANGED notJobVars
  /\ UNCHANGED <<now, user_profiles, email_preferences, ga4_connections,
                 daily_insights, user_email_logs, outbox, preferences,
                 usersToProcess, filterIdx, task, summary, retval>>

\* rows of .from("email_preferences").select("user_id").eq("enabled", true)
EnabledUsers ==
  SelectSeq(UserOrder, LAMBDA u : email_preferences[u].enabled)

\* lines 579-597: the catch block of runDailyInsightsJob
CatchFatal(message) ==
  /\ IF runId # NoRun
     THEN cron_job_runs' = UpdateRun(cron_job_runs, runId,
            [status |-> "failed", completed_at |-> now, errors |-> message])
     ELSE UNCHANGED cron_job_runs
  /\ Return([path |-> "fatal", success |-> FALSE, error |-> message,
             summary |-> NoSummary])

\* lines 463-477: enumerate the enabled subscribers.  The query resolves to
\* rows, resolves to an error, or rejects (the client throws).
FetchPreferences ==
  /\ phase = "enumerate"
  /\ \E outcome \in {"rows", "error", "throw"} :
       CASE outcome = "error" ->
              /\ Return([path |-> "enumError", success |-> FALSE,
                         error |-> "enumeration failed", summary |-> NoSummary])
              /\ UNCHANGED <<cron_job_runs, preferences, filterIdx>>
         [] outcome = "throw" ->
              /\ CatchFatal("enumeration threw")
              /\ UNCHANGED <<preferences, filterIdx>>
         [] outcome = "rows" ->
              IF Len(EnabledUsers) = 0
              THEN /\ Return([path |-> "noPrefs", success |-> TRUE,
                              error |-> NULL, summary |-> NoSummary])
                   /\ UNCHANGED <<cron_job_runs, preferences, filterIdx>>
              ELSE /\ preferences' = EnabledUsers
                   /\ filterIdx' = 1
                   /\ phase' = "filter"
                   /\ UNCHANGED <<cron_job_runs, retval>>
  /\ UNCHANGED notJobVars
  /\ UNCHANGED <<now, ticks, user_profiles, email_preferences,
                 ga4_connections, daily_insights, user_email_logs, outbox,
                 runId, usersToProcess, task, summary>>

\* a check that looks at enabled only and not at the delivery time
shouldSendEmailNowAnyHour(userId, lookup) ==
  lookup # "error" /\ email_preferences[userId].enabled

\* a check whose catch block answers false
shouldSendEmailNowClosed(userId, lookup) ==
  LET prefs == email_preferences[userId]
  IN IF lookup = "error" \/ ~prefs.enabled
     THEN FALSE
     ELSE IF prefs.delivery_time = NoTime \/ prefs.timezone = InvalidZone
          THEN FALSE
          ELSE isWithinWindow(LocalHour(now, prefs.timezone),
                              prefs.delivery_time)

\* shouldSendEmailNow(userId), lines 376-429.  lookup is the outcome of the
\* preferences query; a delivery_time of null makes split() throw, a
\* timezone the runtime does not know makes toLocaleString() throw, and the
\* catch block answers true.
shouldSendEmailNow(userId, lookup) ==
  LET prefs == email_preferences[userId]
  IN IF lookup = "error" \/ ~prefs.enabled
     THEN FALSE
     ELSE IF prefs.delivery_time = NoTime \/ prefs.timezone = InvalidZone
          THEN TRUE
          ELSE isWithinWindow(LocalHour(now, prefs.timezone),
                              prefs.delivery_time)

\* lines 489-496: one iteration of the filter loop
FilterUser ==
  /\ phase = "filter"
  /\ filterIdx <= Len(preferences)
  /\ \E lookup \in {"row", "error"} :
       LET userId == preferences[filterIdx]
       IN usersToProcess' =
            IF shouldSendEmailNow(userId, lookup)
            THEN Append(usersToProcess, userId)
            ELSE usersToProcess
  /\ filterIdx' = filterIdx + 1
  /\ UNCHANGED notJobVars
  /\ UNCHANGED <<now, ticks, user_profiles, email_preferences,
                 ga4_connections, daily_insights, user_email_logs,
                 cron_job_runs, outbox, phase, runId, preferences, task,
                 summary, retval>>

\* lines 502-527: nobody is inside the delivery window
NoUsersToProcess ==
  /\ phase = "filter"
  /\ filterIdx > Len(preferences)
  /\ Len(usersToProcess) = 0
  /\ IF runId # NoRun
     THEN cron_job_runs' = UpdateRun(cron_job_runs, runId,
            [status |-> "success", completed_at |-> now,
             users_processed |-> 0, emails_sent |-> 0, insights_found |-> 0])
     ELSE UNCHANGED cron_job_runs
  /\ Return([path |-> "noUsers", success |-> TRUE, error |-> NULL,
             summary |-> [NoSummary EXCEPT !.skipped = Len(preferences)]])
  /\ UNCHANGED notJobVars
  /\ UNCHANGED <<now, ticks, user_profiles, email_preferences,
                 ga4_connections, daily_insights, user_email_logs, outbox,
                 runId, preferences, usersToProcess, filterIdx, task, summary>>

\* lines 529-534: usersToProcess.map(...) starts every task
FanOut ==
  /\ phase = "filter"
  /\ filterIdx > Len(preferences)
  /\ Len(usersToProcess) > 0
  /\ task' = [u \in Users |->
                IF \E i \in 1..Len(usersToProcess) : usersToProcess[i] = u
                THEN [NoTask EXCEPT !.pc = "profile", !.status = "pending"]
                ELSE NoTask]
  /\ phase' = "fanout"
  /\ UNCHANGED notJobVars
  /\ UNCHANGED <<now, ticks, user_profiles, email_preferences,
                 ga4_connections, daily_insights, user_email_logs,
                 cron_job_runs, outbox, runId, preferences, usersToProcess,
                 filterIdx, summary, retval>>


(***************************************************************************)
(* The analyzer and the metrics collaborator, as the orchestrator sees     *)
(* them: fetchMetrics delivers one of a few series, analyzeMetrics maps a  *)
(* series to its ranked insights.                                          *)
(***************************************************************************)
Series == {"flat", "one", "five"}

Insight(d, m, cur, exp) ==
  [date |-> d, metric |-> m, currentValue |-> cur, expectedValue |-> exp]

\* the call insightsService.analyzeMetrics(metrics.daily) of the scheduler,
\* by the kind of series; the samples end yesterday
insightsOfSeries(series, today) ==
  LET a == Insight(today - 1, "sessions", 300, 100)
      b == Insight(today - 1, "conversions", 9, 3)
      c == Insight(today - 2, "bounceRate", 80, 40)
      d == Insight(today - 3, "totalUsers", 250, 100)
      e == Insight(today - 2, "sessions", 10, 100)
  IN CASE series = "flat" -> <<>>
       [] series = "one" -> <<b>>
       [] series = "five" -> <<b, a, c, d, e>>

(***************************************************************************)
(* daily_insights and its upsert                                           *)
(***************************************************************************)
\* onConflict: "user_id,insight_date,priority"
ConflictKey(row) == <<row.user_id, row.insight_date, row.priority>>

\* a plain insert in place of the upsert
InsertRow(table, row) == table (+) SetToBag({row})

\* one row of .upsert(rows, {onConflict, ignoreDuplicates: false}): a stored
\* row with the same conflict key is replaced, otherwise the row is added
UpsertRow(table, row) ==
  LET keep == {r \in BagToSet(table) : ConflictKey(r) # ConflictKey(row)}
  IN [r \in keep \cup {row} |-> IF r = row THEN 1 ELSE table[r]]

RECURSIVE Upsert(_, _)
Upsert(table, rows) ==
  IF rows = <<>> THEN table
  ELSE Upsert(UpsertRow(table, Head(rows)), Tail(rows))

\* the whole list in place of its first three
allInsights(insights) == insights

\* insights.slice(0, 3)
topInsights(insights) ==
  SubSeq(insights, 1, IF Len(insights) < TopN THEN Len(insights) ELSE TopN)

\* lines 290-307: the rows built from topInsights; insight.baseline is not
\* a field of an insight, so baseline_value is null
InsightRows(userId, connId, top) ==
  [index \in 1..Len(top) |->
     [user_id |-> userId, ga4_connection_id |-> connId,
      insight_date |-> top[index].date, priority |-> index,
      metric_name |-> top[index].metric,
      metric_value |-> top[index].currentValue,
      baseline_value |-> NoTime]]

(***************************************************************************)
(* processDailyInsightsForUser                                             *)
(***************************************************************************)
Failure(userId, reason) ==
  [userId |-> userId, success |-> FALSE, error |-> reason, insightsCount |-> 0]

\* a return statement of the async function: the promise fulfils with the
\* result and the frame is gone; what the run called, analysed, emailed and
\* used as its token is kept for the properties
Fulfil(t, result) ==
  [NoTask EXCEPT !.pc = "done", !.status = "fulfilled", !.value = result,
                 !.trace = t.trace, !.insights = t.insights,
                 !.emailed = t.emailed, !.usedToken = t.usedToken]

\* without the catch block the promise would reject
Rejected(t, userId, message) ==
  [NoTask EXCEPT !.pc = "done", !.status = "rejected", !.trace = t.trace]

\* lines 366-369: the catch block turns a thrown error into a result
Caught(t, userId, message) == Fulfil(t, Failure(userId, message))

Called(t, call) == [t EXCEPT !.trace = Append(@, call)]

\* a profile step that does not look at the subscription status
ProfileLookupAnyStatus(u) ==
  /\ phase = "fanout"
  /\ task[u].pc = "profile"
  /\ \E lookup \in {"row", "error"} :
       LET t == Called(task[u], "user_profiles.select")
           userProfile == user_profiles[u]
       IN task' = [task EXCEPT ![u] =
            IF lookup = "error"
            THEN Fulfil(t, Failure(u, "User profile not found"))
            ELSE [t EXCEPT !.pc = "prefs",
                           !.tier = userProfile.subscription_tier]]
  /\ UNCHANGED notJobVars
  /\ UNCHANGED <<now, ticks, user_profiles, email_preferences,
                 ga4_connections, daily_insights, user_email_logs,
                 cron_job_runs, outbox, phase, runId, preferences,
                 usersToProcess, filterIdx, summary, retval>>

\* Steps 1-2, lines 62-78
ProfileLookup(u) ==
  /\ phase = "fanout"
  /\ task[u].pc = "profile"
  /\ \E lookup \in {"row", "error"} :
       LET t == Called(task[u], "user_profiles.select")
           userProfile == user_profiles[u]
       IN task' = [task EXCEPT ![u] =
            IF lookup = "error"
            THEN Fulfil(t, Failure(u, "User profile not found"))
            ELSE IF userProfile.subscription_status # "active"
            THEN Fulfil(t, Failure(u, "Inactive subscription"))
            ELSE [t EXCEPT !.pc = "prefs",
                           !.tier = userProfile.subscription_tier]]
  /\ UNCHANGED notJobVars
  /\ UNCHANGED <<now, ticks, user_profiles, email_preferences,
                 ga4_connections, daily_insights, user_email_logs,
                 cron_job_runs, outbox, phase, runId, preferences,
                 usersToProcess, filterIdx, summary, retval>>

\* Steps 3-5, lines 80-117
PreferencesLookup(u) ==
  /\ phase = "fanout"
  /\ task[u].pc = "prefs"
  /\ \E lookup \in {"row", "error"} :
       LET t == Called(task[u], "email_preferences.select")
           emailPref == email_preferences[u]
           reportDays == IF emailPref.report_days = NoDays
                         THEN AllDays ELSE emailPref.report_days
       IN task' = [task EXCEPT ![u] =
            IF lookup = "error" \/ ~emailPref.enabled
            THEN Fulfil(t, Failure(u, "Email preferences disabled"))
            ELSE IF ~shouldSendReportToday(reportDays, now)
            THEN Fulfil(t, Failure(u, "Not scheduled for today"))
            ELSE IF ~shouldSendReport(t.tier, emailPref.last_email_sent_at, now)
            THEN Fulfil(t, Failure(u, "Frequency limit reached"))
            ELSE [t EXCEPT !.pc = "conn",
                           !.lastSent = emailPref.last_email_sent_at]]
  /\ UNCHANGED notJobVars
  /\ UNCHANGED <<now, ticks, user_profiles, email_preferences,
                 ga4_connections, daily_insights, user_email_logs,
                 cron_job_runs, outbox, phase, runId, preferences,
                 usersToProcess, filterIdx, summary, retval>>

ActiveConnections(u) ==
  {c \in ga4_connections : c.user_id = u /\ c.is_active}

\* Step 6 and the test of Step 7, lines 119-139; limit(1) without an order
\* may deliver any of the active rows
ConnectionLookup(u) ==
  /\ phase = "fanout"
  /\ task[u].pc = "conn"
  /\ LET t == Called(task[u], "ga4_connections.select")
     IN \/ /\ \E lookup \in {"rows", "error"} :
                lookup = "error" \/ ActiveConnections(u) = {}
           /\ task' = [task EXCEPT ![u] =
                Fulfil(t, Failure(u, "No active GA4 connection"))]
        \/ \E connection \in ActiveConnections(u) :
             task' = [task EXCEPT ![u] =
               [t EXCEPT !.connId = connection.id,
                         !.accessToken = connection.access_token,
                         !.pc = IF now >= connection.token_expires_at
                                THEN "refresh" ELSE "fetch"]]
  /\ UNCHANGED notJobVars
  /\ UNCHANGED <<now, ticks, user_profiles, email_preferences,
                 ga4_connections, daily_insights, user_email_logs,
                 cron_job_runs, outbox, phase, runId, preferences,
                 usersToProcess, filterIdx, summary, retval>>

\* .update(fields).eq("id", connId) on ga4_connections
UpdateConnection(rows, connId, token, expiry) ==
  {IF c.id = connId
   THEN [c EXCEPT !.access_token = token, !.token_expires_at = expiry]
   ELSE c : c \in rows}

\* a refresh step that writes the row before it knows whether the
\* collaborator delivered tokens
RefreshTokenWriteFirst(u) ==
  /\ phase = "fanout"
  /\ task[u].pc = "refresh"
  /\ LET t == Called(task[u], "refreshAccessToken")
         newToken == [src |-> "refresh", at |-> now]
     IN \/ /\ task' = [task EXCEPT ![u] =
                Caught(t, u, "Failed to refresh access token")]
           /\ ga4_connections' = UpdateConnection(ga4_connections,
                t.connId, NoToken, now + TokenLifetimeHours)
        \/ /\ task' = [task EXCEPT ![u] =
                [t EXCEPT !.pc = "fetch", !.accessToken = newToken]]
           /\ ga4_connections' = UpdateConnection(ga4_connections,
                t.connId, newToken, now + TokenLifetimeHours)
  /\ UNCHANGED notJobVars
  /\ UNCHANGED <<now, ticks, user_profiles, email_preferences,
                 daily_insights, user_email_logs, cron_job_runs, outbox,
                 phase, runId, preferences, usersToProcess, filterIdx,
                 summary, retval>>

\* Step 7, lines 139-161: refreshAccessToken throws or delivers new tokens;
\* the update of the row may fail, and then the old token stays in use
RefreshToken(u) ==
  /\ phase = "fanout"
  /\ task[u].pc = "refresh"
  /\ LET t == Called(task[u], "refreshAccessToken")
         newToken == [src |-> "refresh", at |-> now]
     IN \/ /\ task' = [task EXCEPT ![u] =
                Caught(t, u, "Failed to refresh access token")]
           /\ UNCHANGED ga4_connections
        \/ \E updateError \in BOOLEAN :
             IF updateError
             THEN /\ task' = [task EXCEPT ![u] = [t EXCEPT !.pc = "fetch"]]
                  /\ UNCHANGED ga4_connections
             ELSE /\ task' = [task EXCEPT ![u] =
                       [t EXCEPT !.pc = "fetch", !.accessToken = newToken]]
                  /\ ga4_connections' = UpdateConnection(ga4_connections,
                       t.connId, newToken, now + TokenLifetimeHours)
  /\ UNCHANGED notJobVars
  /\ UNCHANGED <<now, ticks, user_profiles, email_preferences,
                 daily_insights, user_email_logs, cron_job_runs, outbox,
                 phase, runId, preferences, usersToProcess, filterIdx,
                 summary, retval>>

\* a fetch step that does not save the token the collaborator rotated
FetchMetricsNoSave(u) ==
  /\ phase = "fanout"
  /\ task[u].pc = "fetch"
  /\ LET t == Called(task[u], "fetchMetrics")
         rotated == [src |-> "fetch", at |-> now]
     IN \/ task' = [task EXCEPT ![u] = Caught(t, u, "fetchMetrics threw")]
        \/ \E hasData \in BOOLEAN, series \in Series,
              tokenRefreshed \in BOOLEAN :
             LET used == IF tokenRefreshed THEN rotated ELSE t.accessToken
                 t2 == [t EXCEPT !.usedToken = used]
             IN task' = [task EXCEPT ![u] =
                  IF ~hasData
                  THEN Fulfil(t2, Failure(u, "No metrics available"))
                  ELSE [t2 EXCEPT !.pc = "analyze", !.series = series]]
  /\ UNCHANGED ga4_connections
  /\ UNCHANGED notJobVars
  /\ UNCHANGED <<now, ticks, user_profiles, email_preferences,
                 daily_insights, user_email_logs, cron_job_runs, outbox,
                 phase, runId, preferences, usersToProcess, filterIdx,
                 summary, retval>>

\* Step 9, lines 169-202: fetchMetrics throws, or delivers a result; a
\* result with tokenRefreshed carries a rotated token, which is saved
FetchMetrics(u) ==
  /\ phase = "fanout"
  /\ task[u].pc = "fetch"
  /\ LET t == Called(task[u], "fetchMetrics")
         rotated == [src |-> "fetch", at |-> now]
     IN \/ /\ task' = [task EXCEPT ![u] = Caught(t, u, "fetchMetrics threw")]
           /\ UNCHANGED ga4_connections
        \/ \E hasData \in BOOLEAN, series \in Series,
              tokenRefreshed \in BOOLEAN :
             LET used == IF tokenRefreshed THEN rotated ELSE t.accessToken
                 t2 == [t EXCEPT !.usedToken = used]
             IN /\ ga4_connections' =
                     IF tokenRefreshed
                     THEN UpdateConnection(ga4_connections, t.connId, rotated,
                                           now + TokenLifetimeHours)
                     ELSE ga4_connections
                /\ task' = [task EXCEPT ![u] =
                     IF ~hasData
                     THEN Fulfil(t2, Failure(u, "No metrics available"))
                     ELSE [t2 EXCEPT !.pc = "analyze", !.series = series]]
  /\ UNCHANGED notJobVars
  /\ UNCHANGED <<now, ticks, user_profiles, email_preferences,
                 daily_insights, user_email_logs, cron_job_runs, outbox,
                 phase, runId, preferences, usersToProcess, filterIdx,
                 summary, retval>>

\* an analysis whose empty result is not tested
afterAnalysisUnchecked(insights) == "persist"

\* line 208: if (!insights || insights.length === 0)
afterAnalysis(insights) ==
  IF Len(insights) = 0 THEN "noInsights" ELSE "persist"

\* Step 10, lines 204-208
Analyze(u) ==
  /\ phase = "fanout"
  /\ task[u].pc = "analyze"
  /\ LET t == Called(task[u], "analyzeMetrics")
         insights == insightsOfSeries(t.series, Today(now))
     IN task' = [task EXCEPT ![u] =
          [t EXCEPT !.insights = insights,
                    !.pc = afterAnalysis(insights)]]
  /\ UNCHANGED notJobVars
  /\ UNCHANGED <<now, ticks, user_profiles, email_preferences,
                 ga4_connections, daily_insights, user_email_logs,
                 cron_job_runs, outbox, phase, runId, preferences,
                 usersToProcess, filterIdx, summary, retval>>

\* .order("created_at", {ascending: true}).limit(1) over the active rows
OldestConnections(u) ==
  {c \in ActiveConnections(u) :
     \A o \in ActiveConnections(u) : c.created_at <= o.created_at}

\* a test that looks at the age of the connection only
noInsightsEmailDueByAge(createdAt, lastEmailSent, t) ==
  t - createdAt >= NoInsightsMinHours

\* lines 229-234: the test that guards the "no insights yet" email;
\* daysSinceLastEmail >= 7 is compared in hours
noInsightsEmailDue(createdAt, lastEmailSent, t) ==
  /\ t - createdAt >= NoInsightsMinHours
  /\ IF lastEmailSent = NoTime
     THEN NeverSentDays >= NoInsightsIntervalDays
     ELSE t - lastEmailSent >= NoInsightsIntervalDays * HoursPerDay

\* lines 208-234 and 277: no insights; look up the age of the connection
NoInsightsLookup(u) ==
  /\ phase = "fanout"
  /\ task[u].pc = "noInsights"
  /\ LET t == Called(task[u], "ga4_connections.select")
     IN \/ /\ \E lookup \in {"row", "error"} :
                lookup = "error" \/ OldestConnections(u) = {}
           /\ task' = [task EXCEPT ![u] =
                Fulfil(t, Failure(u, "No insights generated"))]
        \/ \E connection \in OldestConnections(u) :
             task' = [task EXCEPT ![u] =
               IF noInsightsEmailDue(connection.created_at, t.lastSent, now)
               THEN [t EXCEPT !.pc = "noInsightsSend"]
               ELSE Fulfil(t, Failure(u, "No insights generated"))]
  /\ UNCHANGED notJobVars
  /\ UNCHANGED <<now, ticks, user_profiles, email_preferences,
                 ga4_connections, daily_insights, user_email_logs,
                 cron_job_runs, outbox, phase, runId, preferences,
                 usersToProcess, filterIdx, summary, retval>>

Email(u, type) == [to |-> u, email_type |-> type, sent_at |-> now,
                   run |-> ticks]

LogRow(u, type, count) ==
  [user_id |-> u, email_type |-> type, sent_at |-> now,
   insights_count |-> count, cron_job_id |-> runId, email_status |-> "sent"]

\* lines 238-277: send the "no insights yet" email; after a successful send
\* log it and stamp last_email_sent_at (a failed insert is only reported on
\* the console and changes nothing else)
NoInsightsSend(u) ==
  /\ phase = "fanout"
  /\ task[u].pc = "noInsightsSend"
  /\ LET t == Called(task[u], "sendNoInsightsEmail")
     IN \E sent \in BOOLEAN :
          IF ~sent
          THEN /\ task' = [task EXCEPT ![u] =
                    Fulfil(t, Failure(u, "No insights generated"))]
               /\ UNCHANGED <<outbox, user_email_logs, email_preferences>>
          ELSE /\ outbox' = outbox \cup {Email(u, "no_insights")}
               /\ user_email_logs' =
                    user_email_logs \cup {LogRow(u, "no_insights", 0)}
               /\ email_preferences' =
                    [email_preferences EXCEPT ![u].last_email_sent_at = now]
               /\ task' = [task EXCEPT ![u] =
                    Fulfil(Called(Called(t, "user_email_logs.insert"),
                                  "email_preferences.update"),
                           Failure(u, "No insights generated"))]
  /\ UNCHANGED notJobVars
  /\ UNCHANGED <<now, ticks, user_profiles, ga4_connections, daily_insights,
                 cron_job_runs, phase, runId, preferences, usersToProcess,
                 filterIdx, summary, retval>>

\* a persist step that does not look at saveError
SaveInsightsUnchecked(u) ==
  /\ phase = "fanout"
  /\ task[u].pc = "persist"
  /\ LET t == Called(task[u], "daily_insights.upsert")
     IN \E saveError \in BOOLEAN :
          /\ daily_insights' =
               IF saveError THEN daily_insights
               ELSE Upsert(daily_insights,
                           InsightRows(u, t.connId, topInsights(t.insights)))
          /\ task' = [task EXCEPT ![u] = [t EXCEPT !.pc = "send"]]
  /\ UNCHANGED notJobVars
  /\ UNCHANGED <<now, ticks, user_profiles, email_preferences,
                 ga4_connections, user_email_logs, cron_job_runs, outbox,
                 phase, runId, preferences, usersToProcess, filterIdx,
                 summary, retval>>

\* Step 11, lines 284-319
SaveInsights(u) ==
  /\ phase = "fanout"
  /\ task[u].pc = "persist"
  /\ LET t == Called(task[u], "daily_insights.upsert")
     IN \E saveError \in BOOLEAN :
          IF saveError
          THEN /\ task' = [task EXCEPT ![u] =
                    Fulfil(t, Failure(u, "upsert failed"))]
               /\ UNCHANGED daily_insights
          ELSE /\ daily_insights' =
                    Upsert(daily_insights,
                           InsightRows(u, t.connId, topInsights(t.insights)))
               /\ task' = [task EXCEPT ![u] = [t EXCEPT !.pc = "send"]]
  /\ UNCHANGED notJobVars
  /\ UNCHANGED <<now, ticks, user_profiles, email_preferences,
                 ga4_connections, user_email_logs, cron_job_runs, outbox,
                 phase, runId, preferences, usersToProcess, filterIdx,
                 summary, retval>>

\* a send step that goes on to the log and the stamp whatever the result
SendEmailUnchecked(u) ==
  /\ phase = "fanout"
  /\ task[u].pc = "send"
  /\ LET t == Called(task[u], "sendDailyInsights")
     IN \E sent \in BOOLEAN :
          /\ outbox' = IF sent THEN outbox \cup {Email(u, "daily_insights")}
                       ELSE outbox
          /\ task' = [task EXCEPT ![u] =
               [t EXCEPT !.pc = "log",
                         !.emailed = IF sent THEN topInsights(t.insights)
                                     ELSE <<>>]]
  /\ UNCHANGED notJobVars
  /\ UNCHANGED <<now, ticks, user_profiles, email_preferences,
                 ga4_connections, daily_insights, user_email_logs,
                 cron_job_runs, phase, runId, preferences, usersToProcess,
                 filterIdx, summary, retval>>

\* a send step that stamps last_email_sent_at when the send failed
SendEmailStamping(u) ==
  /\ phase = "fanout"
  /\ task[u].pc = "send"
  /\ LET t == Called(task[u], "sendDailyInsights")
     IN \E sent \in BOOLEAN :
          IF ~sent
          THEN /\ task' = [task EXCEPT ![u] =
                    Fulfil(t, Failure(u, "email failed"))]
               /\ email_preferences' =
                    [email_preferences EXCEPT ![u].last_email_sent_at = now]
               /\ UNCHANGED outbox
          ELSE /\ outbox' = outbox \cup {Email(u, "daily_insights")}
               /\ task' = [task EXCEPT ![u] =
                    [t EXCEPT !.pc = "log",
                              !.emailed = topInsights(t.insights)]]
               /\ UNCHANGED email_preferences
  /\ UNCHANGED notJobVars
  /\ UNCHANGED <<now, ticks, user_profiles, ga4_connections, daily_insights,
                 user_email_logs, cron_job_runs, phase, runId, preferences,
                 usersToProcess, filterIdx, summary, retval>>

\* Step 12, lines 321-331: sendDailyInsights(userId, topInsights, tier)
\* answers {success: true} after the email collaborator accepted the email
\* with a card for each insight it was given, {success: false} otherwise
SendEmail(u) ==
  /\ phase = "fanout"
  /\ task[u].pc = "send"
  /\ LET t == Called(task[u], "sendDailyInsights")
     IN \E sent \in BOOLEAN :
          IF ~sent
          THEN /\ task' = [task EXCEPT ![u] =
                    Fulfil(t, Failure(u, "email failed"))]
               /\ UNCHANGED outbox
          ELSE /\ outbox' = outbox \cup {Email(u, "daily_insights")}
               /\ task' = [task EXCEPT ![u] =
                    [t EXCEPT !.pc = "log",
                              !.emailed = topInsights(t.insights)]]
  /\ UNCHANGED notJobVars
  /\ UNCHANGED <<now, ticks, user_profiles, email_preferences,
                 ga4_connections, daily_insights, user_email_logs,
                 cron_job_runs, phase, runId, preferences, usersToProcess,
                 filterIdx, summary, retval>>

\* Steps 13-14, lines 333-365: log the email, stamp last_email_sent_at and
\* return success (a failed insert is only reported on the console)
LogAndStamp(u) ==
  /\ phase = "fanout"
  /\ task[u].pc = "log"
  /\ LET t == Called(Called(task[u], "user_email_logs.insert"),
                     "email_preferences.update")
         count == Len(topInsights(t.insights))
     IN /\ user_email_logs' =
             user_email_logs \cup {LogRow(u, "daily_insights", count)}
        /\ email_preferences' =
             [email_preferences EXCEPT ![u].last_email_sent_at = now]
        /\ task' = [task EXCEPT ![u] =
             Fulfil(t, [userId |-> u, success |-> TRUE, error |-> NULL,
                        insightsCount |-> count])]
  /\ UNCHANGED notJobVars
  /\ UNCHANGED <<now, ticks, user_profiles, ga4_connections, daily_insights,
                 cron_job_runs, outbox, phase, runId, preferences,
                 usersToProcess, filterIdx, summary, retval>>

(***************************************************************************)
(* runDailyInsightsJob, after the fan-out                                  *)
(***************************************************************************)
Settled(t) == t.status \in {"fulfilled", "rejected"}

\* resolves as soon as one promise has settled
anySettled == \E i \in 1..Len(usersToProcess) : Settled(task[usersToProcess[i]])

\* await Promise.allSettled(...): resolves when every promise has settled
allSettled == \A i \in 1..Len(usersToProcess) : Settled(task[usersToProcess[i]])

RECURSIVE SumSeq(_)
SumSeq(q) == IF q = <<>> THEN 0 ELSE Head(q) + SumSeq(Tail(q))

\* a summary whose failed counts the rejected promises only
SummarizeRejectedOnly(users, prefs, tasks) ==
  LET results == [i \in 1..Len(users) |-> tasks[users[i]]]
  IN [total |-> Len(users),
      skipped |-> Len(prefs) - Len(users),
      successful |-> Cardinality({i \in 1..Len(users) :
                       results[i].status = "fulfilled"
                       /\ results[i].value.success}),
      failed |-> Cardinality({i \in 1..Len(users) :
                       results[i].status = "rejected"}),
      results |-> [i \in 1..Len(users) |->
                     IF results[i].status = "fulfilled"
                     THEN results[i].value
                     ELSE Failure(NULL, "rejected")]]

\* lines 536-548
Summarize(users, prefs, tasks) ==
  LET results == [i \in 1..Len(users) |-> tasks[users[i]]]
  IN [total |-> Len(users),
      skipped |-> Len(prefs) - Len(users),
      successful |-> Cardinality({i \in 1..Len(users) :
                       results[i].status = "fulfilled"
                       /\ results[i].value.success}),
      failed |-> Cardinality({i \in 1..Len(users) :
                       results[i].status = "rejected"
                       \/ ~results[i].value.success}),
      results |-> [i \in 1..Len(users) |->
                     IF results[i].status = "fulfilled"
                     THEN results[i].value
                     ELSE Failure(NULL, "rejected")]]

\* lines 568-570
insightsFound(results) ==
  SumSeq([i \in 1..Len(results) |->
            IF results[i].success THEN results[i].insightsCount ELSE 0])

\* lines 529-578: the rest of the job once allSettled has resolved
Finalize ==
  /\ phase = "fanout"
  /\ allSettled
  /\ LET s == Summarize(usersToProcess, preferences, task)
     IN /\ summary' = s
        /\ IF runId # NoRun
           THEN cron_job_runs' = UpdateRun(cron_job_runs, runId,
                  [status |-> "success", completed_at |-> now,
                   users_processed |-> s.total,
                   emails_sent |-> s.successful,
                   insights_found |-> insightsFound(s.results)])
           ELSE UNCHANGED cron_job_runs
        /\ Return([path |-> "summary", success |-> TRUE, error |-> NULL,
                   summary |-> s])
  /\ UNCHANGED notJobVars
  /\ UNCHANGED <<now, ticks, user_profiles, email_preferences,
                 ga4_connections, daily_insights, user_email_logs, outbox,
                 runId, preferences, usersToProcess, filterIdx, task>>

(***************************************************************************)
(* The cron schedule and the collaborators that own the subscriber rows    *)
(***************************************************************************)
\* startDailySchedule, lines 604-623: the job has returned; the next tick
\* starts from fresh locals
NextTick ==
  /\ phase = "returned"
  /\ ticks < MaxTicks
  /\ now' = now + TickHours
  /\ phase' = "idle"
  /\ runId' = NoRun
  /\ preferences' = <<>>
  /\ usersToProcess' = <<>>
  /\ filterIdx' = 0
  /\ task' = [u \in Users |-> NoTask]
  /\ summary' = NoSummary
  /\ retval' = NoReturn
  /\ UNCHANGED notJobVars
  /\ UNCHANGED <<ticks, user_profiles, email_preferences, ga4_connections,
                 daily_insights, user_email_logs, cron_job_runs, outbox>>

Next ==
  \/ CreateRunLog
  \/ FetchPreferences
  \/ FilterUser
  \/ NoUsersToProcess
  \/ FanOut
  \/ \E u \in Users : ProfileLookup(u)
  \/ \E u \in Users : PreferencesLookup(u)
  \/ \E u \in Users : ConnectionLookup(u)
  \/ \E u \in Users : RefreshToken(u)
  \/ \E u \in Users : FetchMetrics(u)
  \/ \E u \in Users : Analyze(u)
  \/ \E u \in Users : NoInsightsLookup(u)
  \/ \E u \in Users : NoInsightsSend(u)
  \/ \E u \in Users : SaveInsights(u)
  \/ \E u \in Users : SendEmail(u)
  \/ \E u \in Users : LogAndStamp(u)
  \/ Finalize
  \/ NextTick

Spec == Init /\ [][Next]_vars

(***************************************************************************)
(* retryEmailSend(emailFunction, maxRetries = 3), insights.service.js      *)
(***************************************************************************)
maxRetries == 3
delays == <<60000, 300000, 900000>>     \* 1min, 5min, 15min, in ms

ErrorMessages == {"rate limited", "timeout"}

\* what one call of emailFunction may do: resolve to {success: true, ...},
\* resolve to {success: false, error}, or throw an error
SendOutcomes ==
  {[kind |-> "ok", error |-> NULL]}
  \cup [kind : {"fail", "throw"}, error : ErrorMessages]

\* delays[attempt - 1] of the 0-based array
backoff(k) == delays[k]

\* a loop that does not look at result.success
afterAttemptBlind(outcome, k) ==
  IF k < maxRetries THEN "wait" ELSE "return"

\* a loop without the bound on attempt: every failure waits and tries again
afterAttemptUnbounded(outcome, k) ==
  IF outcome.kind = "ok" THEN "return" ELSE "wait"

\* lines 549-586: what the loop does after the call of attempt k
afterAttempt(outcome, k) ==
  IF outcome.kind = "ok" THEN "return"
  ELSE IF k < maxRetries THEN "wait" ELSE "return"

\* the value returned after the call of attempt k: the result itself, or
\* for a thrown error {success: false, error: error.message, attempts}
returned(outcome, k) ==
  CASE outcome.kind = "ok" ->
         [success |-> TRUE, error |-> NULL, emailId |-> "id", attempts |-> 0]
    [] outcome.kind = "fail" ->
         [success |-> FALSE, error |-> outcome.error, emailId |-> NULL,
          attempts |-> 0]
    [] outcome.kind = "throw" ->
         [success |-> FALSE, error |-> outcome.error, emailId |-> NULL,
          attempts |-> maxRetries]

\* line 549: the loop starts with attempt = 1
RetryStart ==
  /\ UNCHANGED notRetryVars
  /\ rpc = "idle"
  /\ rpc' = "call"
  /\ attempt' = 1
  /\ UNCHANGED <<sendLog, waits, rret>>

\* lines 550-585: await emailFunction() and the branch taken on its outcome
RetryAttempt ==
  /\ UNCHANGED notRetryVars
  /\ rpc = "call"
  /\ attempt <= maxRetries
  /\ \E outcome \in SendOutcomes :
       /\ sendLog' = Append(sendLog, outcome)
       /\ IF afterAttempt(outcome, attempt) = "return"
          THEN /\ rret' = returned(outcome, attempt)
               /\ rpc' = "returned"
          ELSE /\ rpc' = "wait"
               /\ UNCHANGED rret
  /\ UNCHANGED <<attempt, waits>>

\* lines 562-567 and 574-577: await the timer, then the next iteration
RetryWait ==
  /\ UNCHANGED notRetryVars
  /\ rpc = "wait"
  /\ waits' = Append(waits, backoff(attempt))
  /\ attempt' = attempt + 1
  /\ rpc' = "call"
  /\ UNCHANGED <<sendLog, rret>>

RetryNext ==
  \/ RetryStart
  \/ RetryAttempt
  \/ RetryWait

FirstSubscribers ==
  CHOOSE sub \in [Users -> Subscribers] :
    \A u \in Users : sub[u].subscription_tier = "growth" /\ sub[u].enabled

RetryInit ==
  /\ JobStart(FirstSubscribers) /\ RetryIdle /\ RoutesIdle /\ GateIdle
  /\ OverlapIdle /\ EngineIdle

SpecRetry == RetryInit /\ [][RetryNext]_vars

(***************************************************************************)
(* The routes that write ga4_connections: the OAuth callback, the          *)
(* save-connection route and the disconnect route.  SpecConn runs them     *)
(* between and during the steps of the job.                                *)
(***************************************************************************)
ConnectionRow(u, p, token, expiry, t) ==
  [id |-> RowId(u, p), user_id |-> u, property_id |-> p, is_active |-> TRUE,
   created_at |-> t, access_token |-> token, token_expires_at |-> expiry]

\* a plain insert in place of the upsert
InsertConnection(rows, u, p, token, expiry, t) ==
  rows \cup {ConnectionRow(u, p, token, expiry, t)}

\* .upsert({user_id, property_id, tokens, is_active: true, ...},
\*         {onConflict: "user_id,property_id"}): the row of the pair is
\* updated (created_at stays), or a new row is inserted
UpsertConnection(rows, u, p, token, expiry, t) ==
  IF \E c \in rows : c.user_id = u /\ c.property_id = p
  THEN {IF c.user_id = u /\ c.property_id = p
        THEN [c EXCEPT !.access_token = token, !.token_expires_at = expiry,
                       !.is_active = TRUE]
        ELSE c : c \in rows}
  ELSE rows \cup {ConnectionRow(u, p, token, expiry, t)}

Served ==
  /\ requests < MaxRequests
  /\ requests' = requests + 1

\* GET /callback, ga4.routes.js lines 63-135: without a code, a token or a
\* property, or with a database error, nothing is written; otherwise the
\* first property is saved with the expiry Date.now() + tokens.expiry_date
Callback(u) ==
  /\ Served
  /\ \E outcome \in {"saved", "failed"}, firstProperty \in Properties :
       ga4_connections' =
         IF outcome = "failed" THEN ga4_connections
         ELSE UpsertConnection(ga4_connections, u, firstProperty,
                [src |-> "oauth", at |-> now],
                now + (now + TokenLifetimeHours), now)
  /\ UNCHANGED <<retryVars, gateVars, overlapVars, engineVars>>
  /\ UNCHANGED <<now, ticks, user_profiles, email_preferences,
                 daily_insights, user_email_logs, cron_job_runs, outbox,
                 phase, runId, preferences, usersToProcess, filterIdx, task,
                 summary, retval>>

\* POST /save-connection, lines 217-288: the middleware or the upsert may
\* refuse; after a save that leaves one active connection the welcome email
\* is sent without being awaited
SaveConnection(u) ==
  /\ Served
  /\ \E outcome \in {"saved", "refused"}, propertyId \in Properties,
        welcomed \in BOOLEAN :
       LET rows == UpsertConnection(ga4_connections, u, propertyId,
                     [src |-> "oauth", at |-> now],
                     now + TokenLifetimeHours, now)
           isFirstConnection ==
             Cardinality({c \in rows : c.user_id = u /\ c.is_active}) = 1
       IN IF outcome = "refused"
          THEN /\ ~welcomed
               /\ UNCHANGED <<ga4_connections, outbox>>
          ELSE /\ ga4_connections' = rows
               /\ welcomed => isFirstConnection
               /\ outbox' = IF welcomed
                            THEN outbox \cup {Email(u, "welcome")}
                            ELSE outbox
  /\ UNCHANGED <<retryVars, gateVars, overlapVars, engineVars>>
  /\ UNCHANGED <<now, ticks, user_profiles, email_preferences,
                 daily_insights, user_email_logs, cron_job_runs, phase, runId,
                 preferences, usersToProcess, filterIdx, task, summary,
                 retval>>

\* DELETE /disconnect/:connectionId, lines 294-316:
\* .update({is_active: false}).eq("id", connectionId).eq("user_id", userId)
Disconnect(u) ==
  /\ Served
  /\ \E connectionId \in {RowId(v, p) : v \in Users, p \in Properties},
        outcome \in {"updated", "error"} :
       ga4_connections' =
         IF outcome = "error" THEN ga4_connections
         ELSE {IF c.id = connectionId /\ c.user_id = u
               THEN [c EXCEPT !.is_active = FALSE]
               ELSE c : c \in ga4_connections}
  /\ UNCHANGED <<retryVars, gateVars, overlapVars, engineVars>>
  /\ UNCHANGED <<now, ticks, user_profiles, email_preferences,
                 daily_insights, user_email_logs, cron_job_runs, outbox,
                 phase, runId, preferences, usersToProcess, filterIdx, task,
                 summary, retval>>

\* one subscriber with an expired token and one with preferences disabled
ConnSubscribers ==
  [u \in Users |->
     IF u = "u1"
     THEN Subscriber("growth", "active", TRUE, NoDays, NoTime, 0, 0)
     ELSE Subscriber("pro", "active", FALSE, AllDays, NoTime, 0, 0)]

ConnInit ==
  /\ JobStart(ConnSubscribers) /\ RetryIdle /\ RoutesIdle /\ GateIdle
  /\ OverlapIdle /\ EngineIdle

\* the subscriber whose session calls the routes
RouteUsers == {"u1"}

ConnNext ==
  \/ Next
  \/ \E u \in RouteUsers : Callback(u)
  \/ \E u \in RouteUsers : SaveConnection(u)
  \/ \E u \in RouteUsers : Disconnect(u)

SpecConn == ConnInit /\ [][ConnNext]_vars

(***************************************************************************)
(* The job over preference rows whose delivery_time may be null and whose  *)
(* timezone may be one the runtime does not know                           *)
(***************************************************************************)
\* an active subscriber whose run goes through every stage, and a canceled
\* one whose run ends at the subscription check
FilterSubscribers ==
  [u \in Users |->
     IF u = "u1"
     THEN Subscriber("growth", "active", TRUE, NoDays, NoTime, 0, 0)
     ELSE Subscriber("enterprise", "canceled", TRUE,
                     AllDays \ {DayName(StartHour)}, NoTime, 0, 0)]

\* the subscriber whose preference row may have a null delivery_time or a
\* timezone the runtime does not know
FilterUsers == {"u1"}

FilterTimes ==
  {dt \in [Users -> {NoTime} \cup {DeliveryTime[u] : u \in Users}] :
     \A u \in Users :
       dt[u] \in (IF u \in FilterUsers THEN {NoTime} ELSE {})
                   \cup {DeliveryTime[u]}}

FilterZones ==
  {tz \in [Users -> {InvalidZone} \cup {Timezone[u] : u \in Users}] :
     \A u \in Users :
       tz[u] \in (IF u \in FilterUsers THEN {InvalidZone} ELSE {})
                   \cup {Timezone[u]}}

FilterInit ==
  /\ \E deliveryTime \in FilterTimes, timezone \in FilterZones :
       JobStartAt(FilterSubscribers, deliveryTime, timezone)
  /\ RetryIdle /\ RoutesIdle /\ GateIdle /\ OverlapIdle /\ EngineIdle

SpecFilter == FilterInit /\ [][Next]_vars

(***************************************************************************)
(* The job and a send through retryEmailSend, both running to completion.  *)
(* Every awaited call returns or throws and every timer fires, so a step   *)
(* that is ready is eventually taken.                                      *)
(***************************************************************************)
LiveNext ==
  \/ Next
  \/ RetryNext

Fairness ==
  /\ WF_vars(Next)
  /\ WF_vars(RetryNext)

\* the subscriber of ConnInit goes through every stage of a run
SpecLive == ConnInit /\ [][LiveNext]_vars /\ Fairness

(***************************************************************************)
(* Two invocations of processDailyInsightsForUser for one subscriber that  *)
(* overlap: the hourly callback of startDailySchedule does not wait for    *)
(* the one before, and runNow and runNowForCurrentUser start an invocation *)
(* at any moment.  Every await of the function is a step; the tables are   *)
(* shared, the locals are per invocation.                                  *)
(***************************************************************************)
OverlapUser == "u1"

\* the subscriber starts with an expired token and no email sent so far, or
\* with an email sent three days ago
OverlapSubscribers ==
  { [u \in Users |->
       IF u = OverlapUser THEN first
       ELSE Subscriber("pro", "active", FALSE, AllDays, NoTime, 0, 0)] :
    first \in { Subscriber("starter", "active", TRUE, AllDays, NoTime, 0, 0),
                Subscriber("starter", "active", TRUE, AllDays,
                           StartHour - 3 * HoursPerDay, 0, 0),
                Subscriber("growth", "active", TRUE, NoDays, NoTime, 0,
                           StartHour + HoursPerDay) } }

OverlapInit ==
  /\ \E sub \in OverlapSubscribers : JobStart(sub)
  /\ RetryIdle /\ RoutesIdle /\ GateIdle /\ OverlapIdle /\ EngineIdle

Returns(c, result) == [c EXCEPT !.pc = "done", !.result = result]

Succeeded(u, count) ==
  [userId |-> u, success |-> TRUE, error |-> NULL, insightsCount |-> count]

\* what no step of an invocation changes
overlapFixed == <<now, ticks, user_profiles, cron_job_runs, phase, runId,
                  preferences, usersToProcess, filterIdx, task, summary,
                  retval, retryVars, routeVars, gateVars, engineVars>>

\* lines 604-631 and 636-660: the cron callback, runNow or
\* runNowForCurrentUser calls the function
OverlapStart(r) ==
  /\ calls[r].pc = "none"
  /\ calls' = [calls EXCEPT ![r].pc = "profile"]
  /\ UNCHANGED <<issued, email_preferences, ga4_connections, daily_insights,
                 user_email_logs, outbox, overlapFixed>>

\* Steps 1-2, lines 62-78
OverlapProfile(r) ==
  /\ calls[r].pc = "profile"
  /\ \E lookup \in {"row", "error"} :
       LET u == OverlapUser
           userProfile == user_profiles[u]
       IN calls' = [calls EXCEPT ![r] =
            IF lookup = "error"
            THEN Returns(@, Failure(u, "User profile not found"))
            ELSE IF userProfile.subscription_status # "active"
            THEN Returns(@, Failure(u, "Inactive subscription"))
            ELSE [@ EXCEPT !.pc = "prefs",
                           !.tier = userProfile.subscription_tier]]
  /\ UNCHANGED <<issued, email_preferences, ga4_connections, daily_insights,
                 user_email_logs, outbox, overlapFixed>>

\* Steps 3-5, lines 80-117: the frequency limit reads last_email_sent_at
OverlapPreferences(r) ==
  /\ calls[r].pc = "prefs"
  /\ \E lookup \in {"row", "error"} :
       LET u == OverlapUser
           emailPref == email_preferences[u]
           reportDays == IF emailPref.report_days = NoDays
                         THEN AllDays ELSE emailPref.report_days
       IN calls' = [calls EXCEPT ![r] =
            IF lookup = "error" \/ ~emailPref.enabled
            THEN Returns(@, Failure(u, "Email preferences disabled"))
            ELSE IF ~shouldSendReportToday(reportDays, now)
            THEN Returns(@, Failure(u, "Not scheduled for today"))
            ELSE IF ~shouldSendReport(@.tier, emailPref.last_email_sent_at,
                                      now)
            THEN Returns(@, Failure(u, "Frequency limit reached"))
            ELSE [@ EXCEPT !.pc = "conn"]]
  /\ UNCHANGED <<issued, email_preferences, ga4_connections, daily_insights,
                 user_email_logs, outbox, overlapFixed>>

\* Step 6 and the test of Step 7, lines 119-139
OverlapConnection(r) ==
  /\ calls[r].pc = "conn"
  /\ LET u == OverlapUser
     IN \/ /\ \E lookup \in {"rows", "error"} :
                lookup = "error" \/ ActiveConnections(u) = {}
           /\ calls' = [calls EXCEPT ![r] =
                Returns(@, Failure(u, "No active GA4 connection"))]
        \/ \E connection \in ActiveConnections(u) :
             calls' = [calls EXCEPT ![r] =
               [@ EXCEPT !.connId = connection.id,
                         !.accessToken = connection.access_token,
                         !.pc = IF now >= connection.token_expires_at
                                THEN "refreshCall" ELSE "fetch"]]
  /\ UNCHANGED <<issued, email_preferences, ga4_connections, daily_insights,
                 user_email_logs, outbox, overlapFixed>>

\* Step 7, lines 139-145: await ga4Service.refreshAccessToken(...)
OverlapRefreshCall(r) ==
  /\ calls[r].pc = "refreshCall"
  /\ \/ /\ calls' = [calls EXCEPT ![r] =
             Returns(@, Failure(OverlapUser,
                                "Failed to refresh access token"))]
        /\ UNCHANGED issued
     \/ /\ issued' = issued + 1
        /\ calls' = [calls EXCEPT ![r] =
             [@ EXCEPT !.pc = "refreshWrite",
                       !.newToken = [src |-> "refresh", at |-> issued + 1]]]
  /\ UNCHANGED <<email_preferences, ga4_connections, daily_insights,
                 user_email_logs, outbox, overlapFixed>>

\* Step 7, lines 147-161: await supabaseAdmin ... update(...).eq("id", ...)
OverlapRefreshWrite(r) ==
  /\ calls[r].pc = "refreshWrite"
  /\ \E updateError \in BOOLEAN :
       IF updateError
       THEN /\ calls' = [calls EXCEPT ![r].pc = "fetch"]
            /\ UNCHANGED ga4_connections
       ELSE /\ calls' = [calls EXCEPT ![r] =
                 [@ EXCEPT !.pc = "fetch",
                           !.accessToken = calls[r].newToken,
                           !.wrote = TRUE]]
            /\ ga4_connections' = UpdateConnection(ga4_connections,
                 calls[r].connId, calls[r].newToken,
                 now + TokenLifetimeHours)
  /\ UNCHANGED <<issued, email_preferences, daily_insights, user_email_logs,
                 outbox, overlapFixed>>

\* Steps 9-10, lines 169-208: the fetch, the save of a rotated token and the
\* analysis; the series delivered here always yields insights
OverlapFetch(r) ==
  /\ calls[r].pc = "fetch"
  /\ LET u == OverlapUser
         rotated == [src |-> "fetch", at |-> issued + 1]
     IN \/ /\ calls' = [calls EXCEPT ![r] =
                Returns(@, Failure(u, "fetchMetrics threw"))]
           /\ UNCHANGED <<issued, ga4_connections>>
        \/ \E hasData \in BOOLEAN, tokenRefreshed \in BOOLEAN :
             /\ issued' = IF tokenRefreshed THEN issued + 1 ELSE issued
             /\ ga4_connections' =
                  IF tokenRefreshed
                  THEN UpdateConnection(ga4_connections, calls[r].connId,
                                        rotated, now + TokenLifetimeHours)
                  ELSE ga4_connections
             /\ calls' = [calls EXCEPT ![r] =
                  LET c == IF tokenRefreshed
                           THEN [@ EXCEPT !.newToken = rotated,
                                          !.wrote = TRUE]
                           ELSE @
                  IN IF ~hasData
                     THEN Returns(c, Failure(u, "No metrics available"))
                     ELSE [c EXCEPT !.pc = "persist"]]
  /\ UNCHANGED <<email_preferences, daily_insights, user_email_logs, outbox,
                 overlapFixed>>

\* Step 11, lines 284-319
OverlapSaveInsights(r) ==
  /\ calls[r].pc = "persist"
  /\ LET u == OverlapUser
         insights == insightsOfSeries("five", Today(now))
     IN \E saveError \in BOOLEAN :
          IF saveError
          THEN /\ calls' = [calls EXCEPT ![r] =
                    Returns(@, Failure(u, "upsert failed"))]
               /\ UNCHANGED daily_insights
          ELSE /\ daily_insights' =
                    Upsert(daily_insights,
                           InsightRows(u, calls[r].connId,
                                       topInsights(insights)))
               /\ calls' = [calls EXCEPT ![r].pc = "send"]
  /\ UNCHANGED <<issued, email_preferences, ga4_connections, user_email_logs,
                 outbox, overlapFixed>>

\* Step 12, lines 321-331
OverlapSendEmail(r) ==
  /\ calls[r].pc = "send"
  /\ LET u == OverlapUser
     IN \E sent \in BOOLEAN :
          IF ~sent
          THEN /\ calls' = [calls EXCEPT ![r] =
                    Returns(@, Failure(u, "email failed"))]
               /\ UNCHANGED outbox
          ELSE /\ outbox' = outbox \cup
                    {[Email(u, "daily_insights") EXCEPT !.run = r]}
               /\ calls' = [calls EXCEPT ![r].pc = "log"]
  /\ UNCHANGED <<issued, email_preferences, ga4_connections, daily_insights,
                 user_email_logs, overlapFixed>>

\* Steps 13-14, lines 333-365
OverlapLogAndStamp(r) ==
  /\ calls[r].pc = "log"
  /\ LET u == OverlapUser
         count == Len(topInsights(insightsOfSeries("five", Today(now))))
     IN /\ user_email_logs' = user_email_logs \cup
             {[LogRow(u, "daily_insights", count) EXCEPT !.cron_job_id = r]}
        /\ email_preferences' =
             [email_preferences EXCEPT ![u].last_email_sent_at = now]
        /\ calls' = [calls EXCEPT ![r] = Returns(@, Succeeded(u, count))]
  /\ UNCHANGED <<issued, ga4_connections, daily_insights, outbox,
                 overlapFixed>>

OverlapNext ==
  \E r \in OverlapRuns :
    \/ OverlapStart(r)
    \/ OverlapProfile(r)
    \/ OverlapPreferences(r)
    \/ OverlapConnection(r)
    \/ OverlapRefreshCall(r)
    \/ OverlapRefreshWrite(r)
    \/ OverlapFetch(r)
    \/ OverlapSaveInsights(r)
    \/ OverlapSendEmail(r)
    \/ OverlapLogAndStamp(r)

SpecOverlap == OverlapInit /\ [][OverlapNext]_vars

(***************************************************************************)
(* The analysis engine, insights.service.js.  Samples are integers and the *)
(* arithmetic is exact: a quotient is the pair of its numerator and its    *)
(* denominator, and a denominator of 0 stands for the IEEE results of a    *)
(* division by zero (NaN when the numerator is 0 too, an infinity          *)
(* otherwise).  A standard deviation and a z-score are square roots; they  *)
(* are kept as the quotient under the root, the z-score with its sign.     *)
(* The texts of an insight (headline, explanation, actionItems) are        *)
(* functions of its other fields and are left out.                         *)
(***************************************************************************)
metricsToAnalyze ==
  <<"sessions", "totalUsers", "conversions", "engagementRate", "bounceRate">>

\* new Date(day.date).getDay(), dates counted in days
getDay(date) == date % DaysPerWeek

Sgn(x) == IF x > 0 THEN 1 ELSE IF x < 0 THEN 0 - 1 ELSE 0

\* 0 / 0
IsNaN(q) == q.den = 0 /\ q.num = 0

RECURSIVE GCD(_, _)
GCD(a, b) == IF b = 0 THEN a ELSE GCD(b, a % b)

\* a quotient in lowest terms, which keeps the products of the comparisons
\* within the integers of the checker; its value is the same
Reduced(q) ==
  LET g == GCD(Abs(q.num), Abs(q.den))
  IN IF g = 0 THEN q ELSE [q EXCEPT !.num = q.num \div g, !.den = q.den \div g]

\* the order of two quotients with denominators >= 0, neither of them NaN
Less(p, q) == p.num * q.den < q.num * p.den

\* Math.abs(zScore) >= limit, the limit in tenths
AbsAtLeast(zScore, limit) ==
  /\ ~IsNaN(zScore)
  /\ 100 * zScore.num >= limit * limit * zScore.den

\* [...dailyData].sort((a, b) => new Date(a.date) - new Date(b.date)):
\* a row goes behind the rows that are not later than it
RECURSIVE PlaceByDate(_, _)
PlaceByDate(sorted, row) ==
  IF sorted = <<>> THEN <<row>>
  ELSE IF row.date < Head(sorted).date THEN <<row>> \o sorted
  ELSE <<Head(sorted)>> \o PlaceByDate(Tail(sorted), row)

RECURSIVE SortByDate(_)
SortByDate(rows) ==
  IF rows = <<>> THEN <<>>
  ELSE PlaceByDate(SortByDate(SubSeq(rows, 1, Len(rows) - 1)),
                   rows[Len(rows)])

\* sortedData.map((d) => d[metricName] || 0)
Values(sortedData, metricName) ==
  [i \in 1..Len(sortedData) |-> sortedData[i][metricName]]

\* a baseline that is the mean of all samples for every day of the week
overallBaseline(sortedData, metricName) ==
  [dayOfWeek \in 0..(DaysPerWeek - 1) |->
     [num |-> SumSeq(Values(sortedData, metricName)),
      den |-> Len(sortedData)]]

\* a baseline computed from the samples before the recent days only
historyBaseline(sortedData, metricName) ==
  LET history == SubSeq(sortedData, 1, Len(sortedData) - RecentDays)
  IN [dayOfWeek \in 0..(DaysPerWeek - 1) |->
        LET byDayOfWeek ==
              SelectSeq(history, LAMBDA d : getDay(d.date) = dayOfWeek)
        IN IF Len(byDayOfWeek) > 0
           THEN [num |-> SumSeq(Values(byDayOfWeek, metricName)),
                 den |-> Len(byDayOfWeek)]
           ELSE [num |-> SumSeq(Values(history, metricName)),
                 den |-> Len(history)]]

\* lines 201-227: the mean of the samples of each day of the week, or the
\* mean of all samples for a day of the week without samples
calculateSeasonalBaseline(sortedData, metricName) ==
  [dayOfWeek \in 0..(DaysPerWeek - 1) |->
     LET byDayOfWeek ==
           SelectSeq(sortedData, LAMBDA d : getDay(d.date) = dayOfWeek)
     IN IF Len(byDayOfWeek) > 0
        THEN [num |-> SumSeq(Values(byDayOfWeek, metricName)),
              den |-> Len(byDayOfWeek)]
        ELSE [num |-> SumSeq(Values(sortedData, metricName)),
              den |-> Len(sortedData)]]

\* lines 232-238: the population standard deviation; the quotient is the
\* variance, sum((v - mean)^2) / n = (n * sum(v^2) - sum(v)^2) / n^2
calculateStandardDeviation(values) ==
  LET n == Len(values)
      sum == SumSeq(values)
      squares == SumSeq([i \in 1..n |-> values[i] * values[i]])
  IN [num |-> n * squares - sum * sum, den |-> n * n]

\* lines 264-274
calculateSlope(values) ==
  LET n == Len(values)
      sumX == SumSeq([i \in 1..n |-> i - 1])
      sumY == SumSeq(values)
      sumXY == SumSeq([i \in 1..n |-> (i - 1) * values[i]])
      sumX2 == SumSeq([i \in 1..n |-> (i - 1) * (i - 1)])
  IN [num |-> n * sumXY - sumX * sumY, den |-> n * sumX2 - sumX * sumX]

\* sortedData.findIndex((d) => d.date === targetDate), counted from 0
findIndex(sortedData, targetDate) ==
  (CHOOSE i \in 1..Len(sortedData) :
     /\ sortedData[i].date = targetDate
     /\ \A j \in 1..(i - 1) : sortedData[j].date # targetDate) - 1

\* a classification that does not look at the number of earlier samples
classifyTrendAnyIndex(sortedData, metricName, targetDate) ==
  LET targetIndex == findIndex(sortedData, targetDate)
      first == IF targetIndex - TREND_WINDOW + 2 < 1 THEN 1
               ELSE targetIndex - TREND_WINDOW + 2
      recentWindow == SubSeq(sortedData, first, targetIndex + 1)
      slope == calculateSlope(Values(recentWindow, metricName))
  IN IF 10 * Abs(slope.num) > SlopeLimit * slope.den
     THEN "trend" ELSE "spike"

\* lines 243-259
classifyTrend(sortedData, metricName, targetDate) ==
  LET targetIndex == findIndex(sortedData, targetDate)
      recentWindow == SubSeq(sortedData, targetIndex - TREND_WINDOW + 2,
                             targetIndex + 1)
      slope == calculateSlope(Values(recentWindow, metricName))
  IN IF targetIndex < TREND_WINDOW THEN "spike"
     ELSE IF 10 * Abs(slope.num) > SlopeLimit * slope.den
     THEN "trend" ELSE "spike"

\* a label that takes 2.5 itself for the lower class
zScoreToConfidenceOpen(zScore) ==
  IF AbsAtLeast(zScore, 30) THEN 997
  ELSE IF AbsAtLeast(zScore, 25) /\ 4 * zScore.num # 25 * zScore.den
  THEN 988
  ELSE IF AbsAtLeast(zScore, 20) THEN 954
  ELSE 900

\* lines 279-285, the labels in tenths
zScoreToConfidence(zScore) ==
  IF AbsAtLeast(zScore, 30) THEN 997
  ELSE IF AbsAtLeast(zScore, 25) THEN 988
  ELSE IF AbsAtLeast(zScore, 20) THEN 954
  ELSE 900

\* (currentValue - expectedValue) / stdDev
ZScore(currentValue, expectedValue, stdDev) ==
  LET diff == currentValue * expectedValue.den - expectedValue.num
      variance == Reduced(stdDev)
  IN Reduced([sign |-> Sgn(diff),
              num |-> diff * diff * variance.den,
              den |-> expectedValue.den * expectedValue.den * variance.num])

\* (currentValue - expectedValue) / expectedValue
PercentChange(currentValue, expectedValue) ==
  [num |-> currentValue * expectedValue.den - expectedValue.num,
   den |-> expectedValue.num]

\* lines 141-192: the insight of one of the recent days
DayInsight(sortedData, metricName, day, expectedValue, zScore) ==
  LET percentChange == PercentChange(day[metricName], expectedValue)
  IN [date |-> day.date,
      metric |-> metricName,
      currentValue |-> day[metricName],
      expectedValue |-> expectedValue,
      percentChange |-> percentChange,
      zScore |-> zScore,
      confidence |-> zScoreToConfidence(zScore),
      trendType |-> classifyTrend(sortedData, metricName, day.date),
      direction |-> IF percentChange.num > 0 THEN "up" ELSE "down",
      impactScore |-> Reduced([num |-> 100 * Abs(percentChange.num),
                               den |-> Abs(percentChange.den)])]

\* an analysis that looks at every day of the series for anomalies
analyzeMetricAllDays(sortedData, metricName) ==
  LET seasonalBaseline == calculateSeasonalBaseline(sortedData, metricName)
      stdDev == calculateStandardDeviation(Values(sortedData, metricName))
      flagged(day) ==
        AbsAtLeast(ZScore(day[metricName],
                          seasonalBaseline[getDay(day.date)], stdDev),
                   Z_SCORE_THRESHOLD)
      days == SelectSeq(sortedData, flagged)
  IN [i \in 1..Len(days) |->
        LET day == days[i]
            expectedValue == seasonalBaseline[getDay(day.date)]
        IN DayInsight(sortedData, metricName, day, expectedValue,
                      ZScore(day[metricName], expectedValue, stdDev))]

\* lines 123-195
analyzeMetric(sortedData, metricName) ==
  LET seasonalBaseline == calculateSeasonalBaseline(sortedData, metricName)
      stdDev == calculateStandardDeviation(Values(sortedData, metricName))
      n == Len(sortedData)
      recentDays == SubSeq(sortedData,
                           IF n > RecentDays THEN n - RecentDays + 1 ELSE 1,
                           n)
      flagged(day) ==
        AbsAtLeast(ZScore(day[metricName],
                          seasonalBaseline[getDay(day.date)], stdDev),
                   Z_SCORE_THRESHOLD)
      days == SelectSeq(recentDays, flagged)
  IN [i \in 1..Len(days) |->
        LET day == days[i]
            expectedValue == seasonalBaseline[getDay(day.date)]
        IN DayInsight(sortedData, metricName, day, expectedValue,
                      ZScore(day[metricName], expectedValue, stdDev))]

\* a comparator that takes every two insights for equal
CompareNone(a, b) == 0

\* the comparator of insights.sort, lines 108-113: negative when a goes
\* before b (a NaN difference counts as 0)
Compare(a, b) ==
  IF Less(a.zScore, b.zScore) THEN 1
  ELSE IF Less(b.zScore, a.zScore) THEN 0 - 1
  ELSE IF Less(a.impactScore, b.impactScore) THEN 1
  ELSE IF Less(b.impactScore, a.impactScore) THEN 0 - 1
  ELSE 0

\* Array.prototype.sort is stable: an insight goes behind the insights it
\* does not precede
RECURSIVE PlaceByRank(_, _)
PlaceByRank(sorted, insight) ==
  IF sorted = <<>> THEN <<insight>>
  ELSE IF Compare(insight, Head(sorted)) < 0 THEN <<insight>> \o sorted
  ELSE <<Head(sorted)>> \o PlaceByRank(Tail(sorted), insight)

RECURSIVE SortByRank(_)
SortByRank(insights) ==
  IF insights = <<>> THEN <<>>
  ELSE PlaceByRank(SortByRank(SubSeq(insights, 1, Len(insights) - 1)),
                   insights[Len(insights)])

\* the insights of all metrics, in the order of metricsToAnalyze
RECURSIVE AllInsights(_, _)
AllInsights(sortedData, k) ==
  IF k > Len(metricsToAnalyze) THEN <<>>
  ELSE analyzeMetric(sortedData, metricsToAnalyze[k])
         \o AllInsights(sortedData, k + 1)

Slice(q, count) == SubSeq(q, 1, IF Len(q) < count THEN Len(q) ELSE count)

\* an analysis whose list of insights is shared by the invocations: the
\* insights of the invocation before are still in it
analyzeMetricsShared(data) ==
  IF data.missing \/ Len(data.rows) < MIN_DATA_POINTS THEN <<>>
  ELSE LET sortedData == SortByDate(data.rows)
           earlier == IF analyses = <<>> THEN <<>>
                      ELSE analyses[Len(analyses)]
           insights == SortByRank(earlier \o AllInsights(sortedData, 1))
           significantInsights ==
             SelectSeq(insights,
                       LAMBDA i : AbsAtLeast(i.zScore, Z_SCORE_THRESHOLD))
       IN Slice(significantInsights, TopInsights)

\* an analysis that runs on any number of samples
analyzeMetricsAnyLength(data) ==
  LET sortedData == SortByDate(data.rows)
      insights == SortByRank(AllInsights(sortedData, 1))
      significantInsights ==
        SelectSeq(insights,
                  LAMBDA i : AbsAtLeast(i.zScore, Z_SCORE_THRESHOLD))
  IN Slice(significantInsights, TopInsights)

\* lines 68-118
analyzeMetrics(data) ==
  IF data.missing \/ Len(data.rows) < MIN_DATA_POINTS THEN <<>>
  ELSE LET sortedData == SortByDate(data.rows)
           insights == SortByRank(AllInsights(sortedData, 1))
           significantInsights ==
             SelectSeq(insights,
                       LAMBDA i : AbsAtLeast(i.zScore, Z_SCORE_THRESHOLD))
       IN Slice(significantInsights, TopInsights)

(***************************************************************************)
(* The engine on its own: analyzeMetrics is invoked on one argument, more  *)
(* than once and at different times.  The argument is a series of 0 to 22  *)
(* days, daily or weekly, in either order, each metric flat at its base or *)
(* with raised or lowered samples among the last five days.                *)
(***************************************************************************)
SeriesLengths == {0, 6, 7, 15, 22}
Spacings == {1, DaysPerWeek}
Orders == {"asc", "desc"}

Base == [sessions |-> 10, totalUsers |-> 10, conversions |-> 0,
         engagementRate |-> 5, bounceRate |-> 4]
Rise == 6

\* the samples of a metric: position 1 is the oldest day, position n the
\* newest
Shape(pattern, base, n) ==
  [i \in 1..n |->
     CASE pattern = "flat" -> base
       [] pattern = "spike" -> IF i = n THEN base + Rise ELSE base
       [] pattern = "early" -> IF i = n - 2 THEN base + Rise ELSE base
       [] pattern = "pair" -> IF i >= n - 1 THEN base + Rise ELSE base
       [] pattern = "twin" -> IF i \in {n - 4, n} THEN base + Rise ELSE base
       [] pattern = "edge" -> IF i \in {n - 4, n} THEN base + Rise
                              ELSE IF i = n - 1 THEN base + 1 ELSE base
       [] pattern = "drop" -> IF i = n THEN 0 ELSE base]

PatternsOf ==
  [sessions |-> {"flat", "spike", "early", "pair", "twin", "edge", "drop"},
   totalUsers |-> {"flat", "spike", "pair"},
   conversions |-> {"flat", "spike", "pair"},
   engagementRate |-> {"flat", "early"},
   bounceRate |-> {"flat", "pair", "drop"}]

FirstDate == 3

\* the rows metrics.daily of a fetch
Rows(n, spacing, order, pattern) ==
  [i \in 1..n |->
     LET k == IF order = "asc" THEN i ELSE n + 1 - i
     IN [date |-> FirstDate + (k - 1) * spacing,
         sessions |-> Shape(pattern.sessions, Base.sessions, n)[k],
         totalUsers |-> Shape(pattern.totalUsers, Base.totalUsers, n)[k],
         conversions |-> Shape(pattern.conversions, Base.conversions, n)[k],
         engagementRate |->
           Shape(pattern.engagementRate, Base.engagementRate, n)[k],
         bounceRate |-> Shape(pattern.bounceRate, Base.bounceRate, n)[k]]]

EngineInit ==
  /\ JobStart(FirstSubscribers) /\ RetryIdle /\ RoutesIdle /\ GateIdle
  /\ OverlapIdle
  /\ analyses = <<>>
  /\ zArg = NoZScore
  /\ label = 0
  /\ \/ dailyData = NoData
     \/ \E n \in SeriesLengths, spacing \in Spacings, order \in Orders,
           pattern \in [sessions : PatternsOf.sessions,
                        totalUsers : PatternsOf.totalUsers,
                        conversions : PatternsOf.conversions,
                        engagementRate : PatternsOf.engagementRate,
                        bounceRate : PatternsOf.bounceRate] :
          dailyData = [missing |-> FALSE,
                       rows |-> Rows(n, spacing, order, pattern)]

\* an invocation of insightsService.analyzeMetrics(dailyData), an hour
\* after the one before
InvokeAnalysis ==
  /\ Len(analyses) < MaxCalls
  /\ analyses' = Append(analyses, analyzeMetrics(dailyData))
  /\ now' = now + TickHours
  /\ UNCHANGED <<dailyData, zArg, label>>
  /\ UNCHANGED <<retryVars, routeVars, gateVars, overlapVars>>
  /\ UNCHANGED <<ticks, user_profiles, email_preferences, ga4_connections,
                 daily_insights, user_email_logs, cron_job_runs, outbox,
                 phase, runId, preferences, usersToProcess, filterIdx, task,
                 summary, retval>>

EngineNext == InvokeAnalysis

SpecEngine == EngineInit /\ [][EngineNext]_vars

(***************************************************************************)
(* zScoreToConfidence on its own: z-scores of either sign whose squares    *)
(* are the quarters from 0 to 10, which include 2.0, 2.5 and 3.0.          *)
(***************************************************************************)
MaxSquare == 40

ConfidenceInit ==
  /\ JobStart(FirstSubscribers) /\ RetryIdle /\ RoutesIdle /\ GateIdle
  /\ OverlapIdle
  /\ dailyData = NoData
  /\ analyses = <<>>
  /\ label = 0
  /\ \E sign \in {0 - 1, 1}, num \in 0..MaxSquare, den \in {1, 4} :
       zArg = [sign |-> IF num = 0 THEN 0 ELSE sign,
               num |-> num, den |-> den]

\* line 162: confidence: this.zScoreToConfidence(zScore)
LabelConfidence ==
  /\ label = 0
  /\ label' = zScoreToConfidence(zArg)
  /\ UNCHANGED <<dailyData, analyses, zArg>>
  /\ UNCHANGED <<jobVars, retryVars, routeVars, gateVars, overlapVars>>

ConfidenceNext == LabelConfidence

SpecConfidence == ConfidenceInit /\ [][ConfidenceNext]_vars

(***************************************************************************)
(* The engine on a metric that has the same fractional value every day (a  *)
(* rate such as 0.99), in floating-point arithmetic: every sum and every   *)
(* quotient is rounded to the nearest number of Precision significant      *)
(* bits, ties to even, as IEEE 754 does with 53 bits.  A number is an      *)
(* integer count of units; a sample is a significand of Precision bits     *)
(* followed by GuardBits zero bits, so that the results here never need a  *)
(* digit below the unit.                                                   *)
(***************************************************************************)
RECURSIVE BitLength(_)
BitLength(x) == IF x = 0 THEN 0 ELSE 1 + BitLength(x \div 2)

RECURSIVE Pow2(_)
Pow2(e) == IF e = 0 THEN 1 ELSE 2 * Pow2(e - 1)

\* the number nearest to num / den, for num >= 0 and den > 0
RoundToPrecision(num, den) ==
  LET e == BitLength(num \div den) - Precision
      ulp == Pow2(IF e > 0 THEN e ELSE 0)
      t == num \div (den * ulp)
      r == num % (den * ulp)
      up == 2 * r > den * ulp \/ (2 * r = den * ulp /\ t % 2 = 1)
  IN (IF up THEN t + 1 ELSE t) * ulp

\* the accumulator of the reduce after the first k values, rounded at
\* every addition; a sum of 0 is exact
RECURSIVE FloatSumTo(_, _)
FloatSumTo(values, k) ==
  IF k = 0 THEN 0
  ELSE LET exact == FloatSumTo(values, k - 1) + values[k]
       IN IF exact = 0 THEN 0 ELSE RoundToPrecision(exact, 1)

\* values.reduce((acc, val) => acc + val, 0)
FloatSum(values) == FloatSumTo(values, Len(values))

FloatMean(values) == RoundToPrecision(FloatSum(values), Len(values))

\* calculateSeasonalBaseline, lines 201-227
FloatBaseline(sortedData, metricName) ==
  [dayOfWeek \in 0..(DaysPerWeek - 1) |->
     LET byDayOfWeek ==
           SelectSeq(sortedData, LAMBDA d : getDay(d.date) = dayOfWeek)
     IN IF Len(byDayOfWeek) > 0
        THEN FloatMean(Values(byDayOfWeek, metricName))
        ELSE FloatMean(Values(sortedData, metricName))]

\* analyzeMetric, lines 123-195, for a metric of constant value: stdDev is
\* 0 when the mean is the value, and then a day whose baseline is not the
\* value has an infinite z-score; otherwise every sample differs from the
\* mean by the same amount, which stdDev then is
FloatAnalyzeMetric(sortedData, metricName) ==
  LET values == Values(sortedData, metricName)
      seasonalBaseline == FloatBaseline(sortedData, metricName)
      mean == FloatMean(values)
      stdDev == Abs(values[1] - mean)
      n == Len(sortedData)
      recentDays == SubSeq(sortedData,
                           IF n > RecentDays THEN n - RecentDays + 1 ELSE 1,
                           n)
      difference(day) ==
        day[metricName] - seasonalBaseline[getDay(day.date)]
      flagged(day) ==
        IF stdDev = 0 THEN difference(day) # 0
        ELSE 10 * Abs(difference(day)) >= Z_SCORE_THRESHOLD * stdDev
      days == SelectSeq(recentDays, flagged)
  IN [i \in 1..Len(days) |->
        [date |-> days[i].date,
         metric |-> metricName,
         currentValue |-> days[i][metricName],
         expectedValue |-> seasonalBaseline[getDay(days[i].date)],
         infinite |-> stdDev = 0]]

RECURSIVE FloatInsights(_, _)
FloatInsights(sortedData, k) ==
  IF k > Len(metricsToAnalyze) THEN <<>>
  ELSE FloatAnalyzeMetric(sortedData, metricsToAnalyze[k])
         \o FloatInsights(sortedData, k + 1)

\* analyzeMetrics, lines 68-118; the flagged days are at most three here,
\* and their order does not matter to what follows
FloatAnalyzeMetrics(data) ==
  IF data.missing \/ Len(data.rows) < MIN_DATA_POINTS THEN <<>>
  ELSE Slice(FloatInsights(SortByDate(data.rows), 1), TopInsights)

\* a series of daily samples whose bounceRate is the same on every day
ConstantRows(n, rate) ==
  [i \in 1..n |->
     [date |-> FirstDate + i - 1, sessions |-> 0, totalUsers |-> 0,
      conversions |-> 0, engagementRate |-> 0, bounceRate |-> rate]]

FloatInit ==
  /\ JobStart(FirstSubscribers) /\ RetryIdle /\ RoutesIdle /\ GateIdle
  /\ OverlapIdle
  /\ analyses = <<>>
  /\ zArg = NoZScore
  /\ label = 0
  /\ \E n \in MIN_DATA_POINTS..MaxDays,
        significand \in Pow2(Precision - 1)..(Pow2(Precision) - 1) :
       dailyData = [missing |-> FALSE,
                    rows |-> ConstantRows(n, significand * Pow2(GuardBits))]

InvokeFloatAnalysis ==
  /\ analyses = <<>>
  /\ analyses' = <<FloatAnalyzeMetrics(dailyData)>>
  /\ UNCHANGED <<dailyData, zArg, label>>
  /\ UNCHANGED <<jobVars, retryVars, routeVars, gateVars, overlapVars>>

FloatNext == InvokeFloatAnalysis

SpecFloat == FloatInit /\ [][FloatNext]_vars

(***************************************************************************)
(* The hour test of shouldSendEmailNow on its own: every pair of a current *)
(* hour and a preferred hour.  toLocaleString with hour12: false prints    *)
(* midnight as "00" or as "24", depending on the ICU data of the runtime.  *)
(***************************************************************************)
WindowInit ==
  /\ JobStart(FirstSubscribers) /\ RetryIdle /\ RoutesIdle /\ OverlapIdle
  /\ EngineIdle
  /\ gpc = "ready"
  /\ gCurrentHours \in 0..HoursPerDay
  /\ gPrefHours \in 0..(HoursPerDay - 1)
  /\ withinWindow = FALSE

\* lines 407-414
CheckWindow ==
  /\ gpc = "ready"
  /\ withinWindow' = isWithinWindow(gCurrentHours, gPrefHours)
  /\ gpc' = "checked"
  /\ UNCHANGED <<gCurrentHours, gPrefHours>>
  /\ UNCHANGED <<jobVars, retryVars, routeVars, overlapVars, engineVars>>

WindowNext == CheckWindow

SpecWindow == WindowInit /\ [][WindowNext]_vars

(***************************************************************************)
(* Properties                                                              *)
(***************************************************************************)
SeqRange(q) == {q[i] : i \in 1..Len(q)}

\* the hours at which shouldSendEmailNow lets subscriber u through
InWindow(u, t) == isWithinWindow(LocalHour(t, Timezone[u]), DeliveryTime[u])

InsightEmails(u) ==
  {e \in outbox : e.to = u /\ e.email_type = "daily_insights"}

\* C1: after an insight email went out to a subscriber, no later tick of the
\* same 3-hour delivery window sends that subscriber another insight email:
\* two insight emails to one subscriber, both sent inside the window, are
\* never less than 3 hours apart.
C1_OncePerWindow ==
  \A u \in Users : \A e1, e2 \in InsightEmails(u) :
    (/\ e1.sent_at < e2.sent_at
     /\ InWindow(u, e1.sent_at)
     /\ InWindow(u, e2.sent_at))
    => e2.sent_at - e1.sent_at > 2 * WindowHours

RowsOf(table, u) == {r \in BagToSet(table) : r.user_id = u}

\* C2: the persist step is an idempotent upsert on (userId, insightDate,
\* priority): no two stored rows ever share the conflict key, and after
\* every persist step the table holds exactly one row per persisted insight
\* (3 rows for 3 insights), persisting the same rows once more would leave
\* it as it is, and a persist step that finds its rows already stored from
\* an earlier run leaves the table unchanged.
C2_IdempotentUpsert ==
  /\ [](/\ \A r \in BagToSet(daily_insights) : CopiesIn(r, daily_insights) = 1
        /\ \A r1, r2 \in BagToSet(daily_insights) :
             ConflictKey(r1) = ConflictKey(r2) => r1 = r2)
  /\ [][\A u \in Users :
          (task[u].pc = "persist" /\ task'[u].pc = "send") =>
            LET rows == InsightRows(u, task[u].connId,
                                    topInsights(task[u].insights))
            IN /\ Upsert(daily_insights', rows) = daily_insights'
               /\ \A i \in 1..Len(rows) : CopiesIn(rows[i], daily_insights') = 1
               /\ Cardinality({r \in RowsOf(daily_insights', u) :
                    \E i \in 1..Len(rows) :
                      ConflictKey(r) = ConflictKey(rows[i])}) = Len(rows)
               /\ (\A i \in 1..Len(rows) : BagIn(rows[i], daily_insights))
                    => daily_insights' = daily_insights]_vars

\* subscriber u2 persisted three insights in the first tick, and its task of
\* the second tick has just persisted the same three again
C2_Witness ==
  /\ ticks = 2
  /\ task["u2"].pc = "send"
  /\ Len(task["u2"].insights) = 5
  /\ \E l \in user_email_logs :
       l.user_id = "u2" /\ l.sent_at = StartHour /\ l.insights_count = TopN
  /\ Cardinality(RowsOf(daily_insights, "u2")) = TopN

Launched == SeqRange(usersToProcess)

\* C3: all tasks of the in-window subscribers are pending together after the
\* fan-out, the job finalizes only when every one of them has settled, every
\* result is kept in the summary, and a step of one task (a failure
\* included) leaves every other task as it was.
C3_WaitForAllDiscardNone ==
  /\ [](phase = "fanout" => \A u \in Launched : task[u].status # "none")
  /\ [](retval.path = "summary" =>
          /\ \A u \in Launched : Settled(task[u])
          /\ Len(retval.summary.results) = Len(usersToProcess)
          /\ \A i \in 1..Len(usersToProcess) :
               retval.summary.results[i] = task[usersToProcess[i]].value)
  /\ [][phase = "fanout" =>
          \A u, v \in Users :
            (u # v /\ task'[v] # task[v]) => task'[u] = task[u]]_vars
  /\ [][\A u \in Users :
          (phase = "fanout" /\ Settled(task[u])) => task'[u] = task[u]]_vars

\* u1's fetch threw while u2's pipeline succeeded, and both are in the result
C3_Witness ==
  /\ retval.path = "summary"
  /\ task["u1"].value.error = "fetchMetrics threw"
  /\ task["u2"].value.success
  /\ Len(retval.summary.results) = 2

LastCall(t) == IF t.trace = <<>> THEN NULL ELSE t.trace[Len(t.trace)]

\* the reasons a run may report after its last call
ReasonsAfter(call) ==
  CASE call = "user_profiles.select" ->
         {"User profile not found", "Inactive subscription"}
    [] call = "email_preferences.select" ->
         {"Email preferences disabled", "Not scheduled for today",
          "Frequency limit reached"}
    [] call = "ga4_connections.select" ->
         {"No active GA4 connection", "No insights generated"}
    [] call = "refreshAccessToken" -> {"Failed to refresh access token"}
    [] call = "fetchMetrics" -> {"fetchMetrics threw", "No metrics available"}
    [] call = "daily_insights.upsert" -> {"upsert failed"}
    [] call = "sendDailyInsights" -> {"email failed"}
    [] call = "sendNoInsightsEmail" -> {"No insights generated"}
    [] call = "email_preferences.update" -> {"No insights generated"}
    [] OTHER -> {}

\* C4: processDailyInsightsForUser never rejects; a settled run carries the
\* result {userId, success, error}: a failure names the reason of the stage
\* it stopped at, and success is reported only after the insight email of
\* this run was sent.
C4_StructuredResult ==
  \A u \in Users :
    /\ task[u].status # "rejected"
    /\ task[u].status = "fulfilled" =>
         /\ task[u].value.userId = u
         /\ ~task[u].value.success =>
              task[u].value.error \in ReasonsAfter(LastCall(task[u]))
         /\ task[u].value.success =>
              /\ task[u].value.error = NULL
              /\ "sendDailyInsights" \in SeqRange(task[u].trace)
              /\ Email(u, "daily_insights") \in outbox

\* a run stopped by the exception of the credential refresh
C4_Witness ==
  \E u \in Users :
    /\ task[u].status = "fulfilled"
    /\ ~task[u].value.success
    /\ task[u].value.error = "Failed to refresh access token"

\* C5: the run row an invocation created is finalized before the invocation
\* returns: on every return path its status is success or failed, never
\* running.
C5_RunRowFinalized ==
  (phase = "returned" /\ runId # NoRun) =>
    cron_job_runs[runId].status \in {"success", "failed"}

\* C6: when the enumeration of the enabled subscribers fails, the run row is
\* finalized as failed with the error detail, and no subscriber is processed.
C6_EnumerationFailureRecorded ==
  (phase = "returned" /\ retval.path \in {"enumError", "fatal"}) =>
    /\ runId # NoRun =>
         /\ cron_job_runs[runId].status = "failed"
         /\ cron_job_runs[runId].errors # NULL
    /\ \A u \in Users : task[u].status = "none"

Failed(outcome) == outcome.kind # "ok"

\* C8: retryEmailSend calls the send function at most 3 times, returns the
\* successful result at the first success and never calls again, and after 3
\* failed attempts returns a failure with the error of the last attempt.
C8_AtMostThreeAttempts ==
  /\ Len(sendLog) <= 3
  /\ \A i \in 1..Len(sendLog) :
       ~Failed(sendLog[i]) =>
         /\ i = Len(sendLog)
         /\ rpc = "returned"
         /\ rret.success
  /\ (rpc = "returned" /\ \A i \in 1..Len(sendLog) : Failed(sendLog[i])) =>
       /\ Len(sendLog) = 3
       /\ ~rret.success
       /\ rret.error = sendLog[3].error
  /\ rpc # "returned" => \A i \in 1..Len(sendLog) : Failed(sendLog[i])

\* the second attempt succeeded and was returned
C8_Witness ==
  /\ rpc = "returned"
  /\ Len(sendLog) = 2
  /\ rret.success

AllFailed ==
  /\ rpc = "returned"
  /\ \A i \in 1..Len(sendLog) : Failed(sendLog[i])

\* C9: the wait after the k-th failed attempt is the k-th of the delays
\* 1 min, 5 min, 15 min, and a send whose every attempt fails has waited each
\* of the three delays (the 15-minute one included) before the failure is
\* returned.
C9_AllThreeDelays ==
  /\ \A k \in 1..Len(waits) : waits[k] = delays[k]
  /\ AllFailed => waits = delays

AnalysisEmpty(t) ==
  /\ "analyzeMetrics" \in SeqRange(t.trace)
  /\ t.insights = <<>>

\* C10 as claimed: a run whose analysis returned an empty list makes no
\* persistence call and no notification call.
C10_NoCallsWhenEmpty ==
  \A u \in Users :
    AnalysisEmpty(task[u]) =>
      SeqRange(task[u].trace) \cap
        {"daily_insights.upsert", "sendDailyInsights", "sendNoInsightsEmail",
         "user_email_logs.insert", "email_preferences.update"} = {}

\* C10 as amended: a run whose analysis returned an empty list persists no
\* insight and sends no insight email; the only email it may send is the
\* "no insights yet" email, and with it the log row and the
\* last_email_sent_at stamp of that email.
C10_NoInsightCallsWhenEmpty ==
  \A u \in Users :
    AnalysisEmpty(task[u]) =>
      /\ SeqRange(task[u].trace) \cap
           {"daily_insights.upsert", "sendDailyInsights"} = {}
      /\ \A e \in outbox :
           (e.to = u /\ e.run = ticks) => e.email_type = "no_insights"
      /\ \A i \in 1..Len(task[u].trace) :
           task[u].trace[i] \in
               {"user_email_logs.insert", "email_preferences.update"}
             => \E j \in 1..(i - 1) :
                  task[u].trace[j] = "sendNoInsightsEmail"

\* a run with an empty analysis that sent the "no insights yet" email
C10_Witness ==
  \E u \in Users :
    /\ AnalysisEmpty(task[u])
    /\ task[u].status = "fulfilled"
    /\ Email(u, "no_insights") \in outbox

NoInsightsEmails(u) ==
  {e \in outbox : e.to = u /\ e.email_type = "no_insights"}

EmailsOfRun(u) == {e \in outbox : e.to = u /\ e.run = ticks}

\* C12: last_email_sent_at of a subscriber is written only by that
\* subscriber's run, only to the time of the write and only when the run has
\* sent the subscriber an email; a run that ended without a successful send
\* has left last_email_sent_at as it was.
C12_StampOnlyAfterSend ==
  /\ [][\A u \in Users :
          email_preferences'[u].last_email_sent_at
            # email_preferences[u].last_email_sent_at =>
              /\ task[u].status = "pending"
              /\ email_preferences'[u].last_email_sent_at = now
              /\ \E e \in outbox' :
                   e.to = u /\ e.run = ticks /\ e.sent_at = now]_vars
  /\ [](\A u \in Users :
          (task[u].status = "fulfilled" /\ EmailsOfRun(u) = {}) =>
            email_preferences[u].last_email_sent_at < now)

\* a run whose insight email failed has ended, the stamp still unset
C12_Witness ==
  \E u \in Users :
    /\ task[u].status = "fulfilled"
    /\ task[u].value.error = "email failed"
    /\ EmailsOfRun(u) = {}
    /\ email_preferences[u].last_email_sent_at = NoTime

\* the top insights of the run of u are stored, one row per rank
TopInsightsStored(u) ==
  LET top == topInsights(task[u].insights)
  IN \A k \in 1..Len(top) :
       \E r \in RowsOf(daily_insights, u) :
         /\ r.priority = k
         /\ r.insight_date = top[k].date
         /\ r.metric_name = top[k].metric

\* C13: the steps of one run are sequential: sendDailyInsights is called
\* only after the upsert of the top insights succeeded (the rows are
\* stored); the log row and the last_email_sent_at update come only after a
\* send that succeeded; a run whose upsert failed ends with a failure at
\* that step and sends no email.
C13_StrictlySequential ==
  \A u \in Users :
    LET tr == task[u].trace
    IN /\ \A i \in 1..Len(tr) :
            tr[i] = "sendDailyInsights" =>
              /\ \E j \in 1..(i - 1) : tr[j] = "daily_insights.upsert"
              /\ TopInsightsStored(u)
       /\ \A i \in 1..Len(tr) :
            tr[i] \in {"user_email_logs.insert", "email_preferences.update"} =>
              /\ \E j \in 1..(i - 1) :
                   tr[j] \in {"sendDailyInsights", "sendNoInsightsEmail"}
              /\ EmailsOfRun(u) # {}
       /\ task[u].value.error = "upsert failed" =>
            /\ task[u].status = "fulfilled"
            /\ ~task[u].value.success
            /\ LastCall(task[u]) = "daily_insights.upsert"
            /\ EmailsOfRun(u) = {}

\* a run that ended at the failed upsert
C13_Witness ==
  \E u \in Users :
    /\ task[u].status = "fulfilled"
    /\ task[u].value.error = "upsert failed"
    /\ Len(task[u].insights) > 0

\* the frequency limit applies: starter tier, last email less than 7 days ago
FrequencyLimited(u) ==
  LET last == email_preferences[u].last_email_sent_at
  IN /\ user_profiles[u].subscription_tier = "starter"
     /\ last # NoTime
     /\ now - last < StarterIntervalDays * HoursPerDay

\* C14: a run that reaches the frequency check ends there with "Frequency
\* limit reached" when the subscriber is on the starter tier and the last
\* email is less than 7 days old, and goes on to the connection lookup in
\* every other case (starter never sent or sent 7 or more days ago, any
\* other tier); a run rejected by the limit has made no connection lookup,
\* credential refresh or metrics fetch.
C14_FrequencyGate ==
  /\ [](\A u \in Users :
          task[u].value.error = "Frequency limit reached" =>
            task[u].trace = <<"user_profiles.select", "email_preferences.select">>)
  /\ [][\A u \in Users :
          (task[u].pc = "prefs" /\ task'[u] # task[u]
           /\ task'[u].value.error \notin
                {"Email preferences disabled", "Not scheduled for today"}) =>
            IF FrequencyLimited(u)
            THEN /\ task'[u].status = "fulfilled"
                 /\ ~task'[u].value.success
                 /\ task'[u].value.error = "Frequency limit reached"
            ELSE task'[u].pc = "conn"]_vars

\* a starter subscriber whose last email is 3 days old was rejected while a
\* starter subscriber whose last email is 7 days old went on
C14_Witness ==
  /\ task["u1"].value.error = "Frequency limit reached"
  /\ now - email_preferences["u1"].last_email_sent_at = 3 * HoursPerDay
  /\ user_profiles["u2"].subscription_tier = "starter"
  /\ "ga4_connections.select" \in SeqRange(task["u2"].trace)

ReportDays(u) ==
  IF email_preferences[u].report_days = NoDays THEN AllDays
  ELSE email_preferences[u].report_days

\* C15 as claimed: the checks form one sequence that ends with the
\* delivery-time window, so a subscriber with an inactive subscription is
\* reported with the reason of that first check, inside the window or not.
\* (Ticks in which a lookup failed for the subscriber are left aside.)
C15_SingleSequence ==
  (phase = "returned" /\ retval.path \in {"summary", "noUsers"}) =>
    \A u \in Users :
      (/\ email_preferences[u].enabled
       /\ u \in Launched <=> InWindow(u, now)
       /\ task[u].value.error # "User profile not found"
       /\ user_profiles[u].subscription_status # "active")
      => task[u].value.error = "Inactive subscription"

\* C15 as amended: the delivery-time window is checked first, in the filter
\* loop over the enabled subscribers, and a subscriber outside it is skipped
\* without any reason; for a subscriber inside it the run checks, in this
\* order, profile found, subscription active, preferences enabled, report
\* day, tier frequency limit, and ends with the distinct reason of the first
\* check that fails; no run ends in an exception.
C15_GateOrder ==
  /\ [](\A u \in Users :
          /\ task[u].status # "rejected"
          /\ (phase \in {"fanout", "returned"} /\ u \in Launched) =>
               /\ email_preferences[u].enabled
               /\ InWindow(u, now)
          /\ (phase \in {"fanout", "returned"} /\ u \notin Launched) =>
               task[u] = NoTask)
  /\ [][\A u \in Users :
          (task[u].pc = "profile" /\ task'[u] # task[u]) =>
            \/ task'[u].value.error = "User profile not found"
            \/ IF user_profiles[u].subscription_status # "active"
               THEN task'[u].value.error = "Inactive subscription"
               ELSE task'[u].pc = "prefs"]_vars
  /\ [][\A u \in Users :
          (task[u].pc = "prefs" /\ task'[u] # task[u]) =>
            IF ~email_preferences[u].enabled
            THEN task'[u].value.error = "Email preferences disabled"
            ELSE \/ task'[u].value.error = "Email preferences disabled"
                 \/ IF DayName(now) \notin ReportDays(u)
                    THEN task'[u].value.error = "Not scheduled for today"
                    ELSE IF FrequencyLimited(u)
                    THEN task'[u].value.error = "Frequency limit reached"
                    ELSE task'[u].pc = "conn"]_vars

\* second tick: u2, inside its window, fails the subscription check and the
\* report-day check and is reported with the first; u1, with an inactive
\* subscription too, is outside its window and skipped without a reason
C15_Witness ==
  /\ ticks = 2
  /\ phase = "returned"
  /\ task["u2"].value.error = "Inactive subscription"
  /\ DayName(now) \notin ReportDays("u2")
  /\ user_profiles["u1"].subscription_status # "active"
  /\ "u1" \notin Launched
  /\ task["u1"] = NoTask

\* min(|c - p|, 24 - |c - p|)
CircularDistance(c, p) ==
  LET d == Abs(c - p)
  IN IF d <= HoursPerDay - d THEN d ELSE HoursPerDay - d

\* C16: for every preferred hour p and every current hour c the
\* delivery-time check passes iff the circular hour distance
\* min(|c-p|, 24-|c-p|) is at most 1 (a midnight printed as 24 counts as
\* hour 0); preferred hour 23 and current hour 1 are 2 hours apart, not 22,
\* and the check fails.
C16_CircularWindow ==
  gpc = "checked" =>
    /\ withinWindow <=>
         CircularDistance(gCurrentHours % HoursPerDay, gPrefHours) <= 1
    /\ (gPrefHours = 23 /\ gCurrentHours = 1) =>
         /\ HourDiff(gCurrentHours, gPrefHours) = 2
         /\ ~withinWindow

\* preferred hour 23, current hour 1: checked and refused
C16_Witness ==
  /\ gpc = "checked"
  /\ gPrefHours = 23
  /\ gCurrentHours = 1
  /\ ~withinWindow

\* C17: when the stored credential has expired and the refresh collaborator
\* delivered new tokens, the new access token and expiry are stored in the
\* credential row and the metrics fetch of the run is issued with the new
\* access token, never with the expired one.
C17_RefreshedTokenUsed ==
  \A u \in Users :
    (task[u].pc = "fetch" /\ LastCall(task[u]) = "refreshAccessToken") =>
      /\ task[u].accessToken = [src |-> "refresh", at |-> now]
      /\ \E c \in ga4_connections :
           /\ c.id = task[u].connId
           /\ c.access_token = task[u].accessToken
           /\ c.token_expires_at = now + TokenLifetimeHours

\* C18: a run whose credential refresh failed ends right there with a
\* failure result: it has fetched no metrics, persisted nothing and sent
\* nothing; the failing step leaves the credential rows, the stored insights,
\* the sent emails and the tasks of the other subscribers as they were.
C18_RefreshFailureAborts ==
  /\ [](\A u \in Users :
          task[u].value.error = "Failed to refresh access token" =>
            /\ task[u].status = "fulfilled"
            /\ ~task[u].value.success
            /\ LastCall(task[u]) = "refreshAccessToken"
            /\ EmailsOfRun(u) = {}
            /\ SeqRange(task[u].trace) \cap
                 {"fetchMetrics", "daily_insights.upsert", "sendDailyInsights",
                  "sendNoInsightsEmail", "user_email_logs.insert",
                  "email_preferences.update"} = {})
  /\ [][\A u \in Users :
          (task[u].pc = "refresh"
           /\ task'[u].value.error = "Failed to refresh access token") =>
            /\ ga4_connections' = ga4_connections
            /\ daily_insights' = daily_insights
            /\ outbox' = outbox
            /\ email_preferences' = email_preferences
            /\ \A v \in Users \ {u} : task'[v] = task[v]]_vars

\* u1's refresh failed and u2's run of the same tick succeeded
C18_Witness ==
  /\ task["u1"].value.error = "Failed to refresh access token"
  /\ task["u2"].status = "fulfilled"
  /\ task["u2"].value.success

\* the fetch of the run of u returned (it did not throw)
FetchReturned(t) ==
  /\ "fetchMetrics" \in SeqRange(t.trace)
  /\ t.value.error # "fetchMetrics threw"

C20_OneActivePerSubscriber ==
  \A u \in Users : Cardinality(ActiveConnections(u)) <= 1

\* C20 as amended: each pair of a subscriber and a property has at most one
\* credential row, hence at most one active row; a subscriber has at most
\* one active row per connected property.
C20_OneRowPerProperty ==
  /\ \A c1, c2 \in ga4_connections :
       (c1.user_id = c2.user_id /\ c1.property_id = c2.property_id)
         => c1 = c2
  /\ \A u \in Users :
       Cardinality(ActiveConnections(u))
         <= Cardinality({c.property_id : c \in ActiveConnections(u)})

\* u1 has two active rows, one of which a run of the orchestrator refreshed
C20_Witness ==
  /\ Cardinality(ActiveConnections("u1")) = 2
  /\ \E c \in ActiveConnections("u1") : c.access_token.src = "refresh"

StoredToken(connId) ==
  (CHOOSE c \in ga4_connections : c.id = connId).access_token

OverlapEmails ==
  {e \in outbox : e.to = OverlapUser /\ e.email_type = "daily_insights"}

\* C21: when two runs process the same subscriber concurrently, the
\* subscriber receives at most one insight email from the two runs.
C21_OverlapDeduplicated ==
  Cardinality(OverlapEmails) <= 1

\* at most one invocation is between reading the credential row and its
\* last write of it
CredentialSerialised ==
  Cardinality({r \in OverlapRuns :
     calls[r].pc \in {"refreshCall", "refreshWrite", "fetch"}}) <= 1

\* the stored token is never older than a token an invocation has written
NoStaleOverwrite ==
  \A r \in OverlapRuns :
    calls[r].wrote => StoredToken(calls[r].connId).at >= calls[r].newToken.at

\* C22: two overlapping runs never refresh or write the same credential row
\* concurrently, so the stored token is never overwritten by a stale write.
C22_CredentialRowSerialised ==
  CredentialSerialised /\ NoStaleOverwrite

Invoked == Len(analyses) >= 1

\* the insights of every invocation so far
Returned == UNION {SeqRange(analyses[k]) : k \in 1..Len(analyses)}

\* C23: for every series with fewer than 7 samples, a missing or an empty
\* series included, analyzeMetrics returns an empty list.
C23_ShortSeriesEmpty ==
  (dailyData.missing \/ Len(dailyData.rows) < 7)
    => \A k \in 1..Len(analyses) : analyses[k] = <<>>

\* six weekly samples, the newest far above the others, have been analysed
C23_Witness ==
  /\ Invoked
  /\ ~dailyData.missing
  /\ Len(dailyData.rows) = 6
  /\ \A i \in 1..6 : getDay(dailyData.rows[i].date) = getDay(FirstDate)
  /\ \E i \in 1..6 :
       /\ dailyData.rows[i].sessions = Base.sessions + Rise
       /\ \A j \in 1..6 : dailyData.rows[j].date <= dailyData.rows[i].date

Constant(metricName) ==
  \A i, j \in 1..Len(dailyData.rows) :
    dailyData.rows[i][metricName] = dailyData.rows[j][metricName]

\* C24: for every series of at least 7 samples in which a metric has the
\* same value on every day, the analysis returns no insight for that metric.
C24_ZeroVarianceSilent ==
  \A k \in 1..Len(metricsToAnalyze) :
    (Len(dailyData.rows) >= 7 /\ Constant(metricsToAnalyze[k]))
      => \A insight \in Returned : insight.metric # metricsToAnalyze[k]

\* the samples of the day of the week of a date, and their sum
SameWeekday(date) ==
  SelectSeq(dailyData.rows, LAMBDA d : getDay(d.date) = getDay(date))

WeekdaySum(date, metricName) == SumSeq(Values(SameWeekday(date), metricName))

NewestDate ==
  CHOOSE date \in {dailyData.rows[i].date : i \in 1..Len(dailyData.rows)} :
    \A i \in 1..Len(dailyData.rows) : dailyData.rows[i].date <= date

\* C25: for every series of non-negative samples no insight is emitted for
\* a sample whose weekday baseline is 0, and every returned insight has the
\* finite percentChange (current - expected) / expected.
C25_PercentChangeDefined ==
  \A insight \in Returned :
    LET total == WeekdaySum(insight.date, insight.metric)
        count == Len(SameWeekday(insight.date))
    IN /\ total # 0
       /\ insight.expectedValue.num # 0
       /\ insight.percentChange.den # 0
       /\ insight.percentChange.num * total
            = (insight.currentValue * count - total)
                * insight.percentChange.den

\* conversions has yielded an insight although one of its three newest
\* samples has the weekday baseline 0
C25_Witness ==
  /\ \E insight \in Returned : insight.metric = "conversions"
  /\ \E i \in 1..Len(dailyData.rows) :
       /\ dailyData.rows[i].date >= NewestDate - 2
       /\ WeekdaySum(dailyData.rows[i].date, "conversions") = 0

\* the sum of the squares of the differences from the mean, times the
\* square of the number of samples: n * sum(v^2) - sum(v)^2
ScaledVariance(metricName) ==
  LET values == Values(dailyData.rows, metricName)
      n == Len(values)
  IN n * SumSeq([i \in 1..n |-> values[i] * values[i]])
       - SumSeq(values) * SumSeq(values)

\* |zScore| >= limit / 10 for the z-score of a sample, from the input:
\* z = (current - weekdaySum / count) / sqrt(scaledVariance / n^2)
SampleAtLeast(date, metricName, current, limit) ==
  LET n == Len(dailyData.rows)
      count == Len(SameWeekday(date))
      difference == current * count - WeekdaySum(date, metricName)
      variance == Reduced([num |-> ScaledVariance(metricName), den |-> n * n])
  IN /\ variance.num > 0
     /\ 100 * difference * difference * variance.den
          >= limit * limit * count * count * variance.num

\* C26: every insight analyzeMetrics returns has |zScore| >= 2.0, where
\* zScore is the difference of the sample from its weekday baseline over the
\* population standard deviation of the metric over the whole series.
C26_SignificantOnly ==
  \A insight \in Returned :
    /\ 100 * insight.zScore.num >= 400 * insight.zScore.den
    /\ SampleAtLeast(insight.date, insight.metric, insight.currentValue, 20)

\* an analysis has returned insights and has left out a raised sample whose
\* z-score is below 2.0
C26_Witness ==
  /\ Returned # {}
  /\ \E i \in 1..Len(dailyData.rows) :
       LET row == dailyData.rows[i]
       IN /\ row.date >= NewestDate - 2
          /\ row.sessions > Base.sessions
          /\ ~SampleAtLeast(row.date, "sessions", row.sessions, 20)
          /\ \A insight \in Returned :
               ~(insight.metric = "sessions" /\ insight.date = row.date)

\* the samples analyzeMetric looks at: the three newest days, every metric
Candidates ==
  IF dailyData.missing \/ Len(dailyData.rows) < 7 THEN {}
  ELSE {[date |-> dailyData.rows[i].date,
         metric |-> metricsToAnalyze[k],
         currentValue |-> dailyData.rows[i][metricsToAnalyze[k]]] :
          i \in {j \in 1..Len(dailyData.rows) :
                   Cardinality({l \in 1..Len(dailyData.rows) :
                      dailyData.rows[l].date > dailyData.rows[j].date}) < 3},
          k \in 1..Len(metricsToAnalyze)}

Emitted ==
  {c \in Candidates : SampleAtLeast(c.date, c.metric, c.currentValue, 20)}

\* the squared z-score and the impact score of an emitted sample, from the
\* input
RankOf(c) ==
  LET n == Len(dailyData.rows)
      count == Len(SameWeekday(c.date))
      total == WeekdaySum(c.date, c.metric)
      difference == c.currentValue * count - total
      variance == Reduced([num |-> ScaledVariance(c.metric), den |-> n * n])
  IN [zScore |-> Reduced([num |-> difference * difference * variance.den,
                          den |-> count * count * variance.num]),
      impactScore |-> Reduced([num |-> 100 * Abs(difference),
                               den |-> total])]

Outranks(a, b) ==
  \/ Less(b.zScore, a.zScore)
  \/ /\ ~Less(a.zScore, b.zScore)
     /\ Less(b.impactScore, a.impactScore)

IsReturned(c, list) ==
  \E i \in 1..Len(list) : list[i].date = c.date /\ list[i].metric = c.metric

\* C27: the returned list has at most 5 elements, is ordered by |zScore|
\* descending, ties by impactScore descending, and consists of the highest
\* ranked of all emitted insights.
C27_TopFiveRanked ==
  \A k \in 1..Len(analyses) :
    LET list == analyses[k]
    IN /\ Len(list) <= 5
       /\ Len(list) = IF Cardinality(Emitted) < 5
                      THEN Cardinality(Emitted) ELSE 5
       /\ \A i, j \in 1..Len(list) : i < j => ~Outranks(list[j], list[i])
       /\ \A i \in 1..Len(list) :
            /\ [date |-> list[i].date, metric |-> list[i].metric,
                currentValue |-> list[i].currentValue] \in Emitted
            /\ \A j \in 1..Len(list) :
                 (list[i].date = list[j].date
                    /\ list[i].metric = list[j].metric) => i = j
       /\ \A c \in Emitted :
            IsReturned(c, list)
              \/ \A i \in 1..Len(list) : ~Outranks(RankOf(c), list[i])

\* more than 5 insights were emitted, of different z-scores, and with a tie
\* of z-scores that the impact scores decide
C27_Witness ==
  /\ Invoked
  /\ Cardinality(Emitted) > 5
  /\ \E i, j \in 1..Len(analyses[1]) :
       Less(analyses[1][j].zScore, analyses[1][i].zScore)
  /\ \E i, j \in 1..Len(analyses[1]) :
       /\ ~Less(analyses[1][j].zScore, analyses[1][i].zScore)
       /\ ~Less(analyses[1][i].zScore, analyses[1][j].zScore)
       /\ Less(analyses[1][j].impactScore, analyses[1][i].impactScore)

\* the label of the fixed breakpoints for the square num / den of a z-score
Breakpoints(num, den) ==
  IF num >= 9 * den THEN 997
  ELSE IF 4 * num >= 25 * den THEN 988
  ELSE IF num >= 4 * den THEN 954
  ELSE 900

\* C28: the confidence label is the one of the fixed breakpoints for |z|,
\* whatever the sign: 99.7 from 3.0, 98.8 from 2.5, 95.4 from 2.0, 90.0
\* below; a z-score of exactly 2.5 or -2.5 is labelled 98.8.
C28_ConfidenceBreakpoints ==
  label # 0 =>
    /\ label = Breakpoints(zArg.num, zArg.den)
    /\ 4 * zArg.num = 25 * zArg.den => label = 988

\* a z-score of exactly -2.5 has been labelled
C28_Witness ==
  /\ label = 988
  /\ zArg.sign = 0 - 1
  /\ 4 * zArg.num = 25 * zArg.den

\* the number of samples that precede the date in the date-ordered series
Preceding(date) ==
  Cardinality({i \in 1..Len(dailyData.rows) : dailyData.rows[i].date < date})

\* the samples between a row and the date, the date included
Behind(i, date) ==
  Cardinality({j \in 1..Len(dailyData.rows) :
                 /\ dailyData.rows[j].date > dailyData.rows[i].date
                 /\ dailyData.rows[j].date <= date})

\* ten times the least-squares slope of the metric over the 5 samples that
\* end at the date: with x = 0..4 the slope is Sum((x - 2) * y) / 10
RECURSIVE WindowMoment(_, _, _)
WindowMoment(i, date, metricName) ==
  IF i = 0 THEN 0
  ELSE WindowMoment(i - 1, date, metricName)
         + (IF dailyData.rows[i].date <= date /\ Behind(i, date) < 5
            THEN (2 - Behind(i, date)) * dailyData.rows[i][metricName]
            ELSE 0)

Steep(date, metricName) ==
  Abs(WindowMoment(Len(dailyData.rows), date, metricName)) > 1

\* C29: a returned insight is classified trend iff at least 5 samples
\* precede its date in the date-ordered series and the least-squares slope
\* over the 5 samples ending at its date has |slope| > 0.1; otherwise it is
\* classified spike.
C29_TrendClassification ==
  \A insight \in Returned :
    /\ insight.trendType \in {"trend", "spike"}
    /\ insight.trendType = "trend"
         <=> /\ Preceding(insight.date) >= 5
             /\ Steep(insight.date, insight.metric)

\* one list has an insight classified trend and an insight that has fewer
\* than 5 earlier samples and a steep window and is classified spike
C29_Witness ==
  \E a, b \in Returned :
    /\ a.trendType = "trend"
    /\ Preceding(a.date) >= 5
    /\ b.trendType = "spike"
    /\ Preceding(b.date) < 5
    /\ Steep(b.date, b.metric)

MostRecent ==
  {i \in 1..Len(dailyData.rows) :
     Cardinality({j \in 1..Len(dailyData.rows) :
                    dailyData.rows[j].date > dailyData.rows[i].date}) < 3}

RefersToRecentSample(insight) ==
  \E i \in MostRecent :
    /\ dailyData.rows[i].date = insight.date
    /\ dailyData.rows[i][insight.metric] = insight.currentValue

\* the argument was supplied newest day first and an insight was returned
SuppliedDescending ==
  /\ ~dailyData.missing
  /\ Len(dailyData.rows) >= 2
  /\ dailyData.rows[1].date > dailyData.rows[2].date

\* C31: every insight analyzeMetrics returns refers to one of the 3 most
\* recent samples by date, in whatever order the samples were supplied, so
\* there are at most 3 insights of a metric; the supplied array is not
\* modified.
C31_RecentSamplesOnly ==
  /\ [](\A k \in 1..Len(analyses) :
          /\ \A i \in 1..Len(analyses[k]) :
               RefersToRecentSample(analyses[k][i])
          /\ \A m \in SeqRange(metricsToAnalyze) :
               Cardinality({i \in 1..Len(analyses[k]) :
                              analyses[k][i].metric = m}) <= 3)
  /\ [][dailyData' = dailyData]_vars

\* a series supplied newest day first, with raised samples on the newest
\* day and on the fifth newest, has given an insight
C31_Witness ==
  /\ SuppliedDescending
  /\ Invoked
  /\ Returned # {}
  /\ \E i \in 1..Len(dailyData.rows) :
       /\ i \notin MostRecent
       /\ dailyData.rows[i].sessions > Base.sessions

\* row r is the row of the insight of rank k of the list, written for u
RowOfRank(r, u, list, k) ==
  /\ r.user_id = u
  /\ r.priority = k
  /\ r.insight_date = list[k].date
  /\ r.metric_name = list[k].metric
  /\ r.metric_value = list[k].currentValue

\* C32: a run that persists insights writes exactly the first min(3, n)
\* insights of the ranked analysis output, each with its 1-based rank as
\* priority: the priorities of a run are distinct and lie in 1..3, and no
\* insight of rank 4 or lower is persisted or emailed.
C32_TopThreePersisted ==
  /\ [][\A u \in Users :
          (task[u].pc = "persist" /\ task'[u].pc = "send") =>
            LET ranked == task[u].insights
                n == Len(ranked)
                written == BagToSet(daily_insights') \ BagToSet(daily_insights)
            IN /\ \A r \in written :
                    /\ r.priority \in 1..3
                    /\ r.priority <= n
                    /\ RowOfRank(r, u, ranked, r.priority)
               /\ \A k \in 1..3 :
                    k <= n =>
                      /\ \E r \in BagToSet(daily_insights') :
                           RowOfRank(r, u, ranked, k)
                      /\ \A r1, r2 \in BagToSet(daily_insights') :
                           (/\ r1.user_id = u /\ r2.user_id = u
                            /\ r1.priority = k /\ r2.priority = k
                            /\ r1.insight_date = ranked[k].date
                            /\ r2.insight_date = ranked[k].date) => r1 = r2]_vars
  /\ [](\A u \in Users :
          LET ranked == task[u].insights
              sent == task[u].emailed
          IN sent # <<>> =>
               /\ Len(sent) = (IF Len(ranked) < 3 THEN Len(ranked) ELSE 3)
               /\ \A k \in 1..Len(sent) : sent[k] = ranked[k])

\* a run whose analysis gave 5 insights has stored 3 rows and emailed 3
\* insights
C32_Witness ==
  \E u \in Users :
    /\ Len(task[u].insights) = 5
    /\ Len(task[u].emailed) = 3
    /\ Cardinality(RowsOf(daily_insights, u)) = 3

\* the emails delivered during the tick that wrote the run row
EmailsOfTick(row) == {e \in outbox : e.sent_at = row.started_at}

\* C33: the emails_sent of a finalized run row is the number of emails
\* delivered to subscribers during its tick, insight emails and "still
\* processing" notifications alike, and its users_processed is the number
\* of subscriber tasks the tick started.
C33_EmailsSentCount ==
  \A id \in 1..Len(cron_job_runs) :
    LET row == cron_job_runs[id]
    IN row.status = "success" =>
         /\ row.emails_sent = Cardinality(EmailsOfTick(row))
         /\ (phase = "returned" /\ row.started_at = now) =>
              row.users_processed =
                Cardinality({u \in Users : task[u].status # "none"})

\* the emails of the orchestrator to subscriber u, of either type
OrchestratorEmails(u) == {e \in outbox : e.to = u}

\* C34: over ticks that do not overlap and whose storage writes succeed, a
\* starter-tier subscriber receives at most one email of the orchestrator
\* (insight email or "still processing" notification) in any period of 7
\* days: two such emails are at least 7 days apart.
C34_StarterWeekly ==
  \A u \in Users :
    user_profiles[u].subscription_tier = "starter" =>
      \A e1, e2 \in OrchestratorEmails(u) :
        e1 # e2 =>
          Abs(e1.sent_at - e2.sent_at) >= StarterIntervalDays * HoursPerDay

\* a starter-tier subscriber who received an email in an earlier tick is
\* inside the delivery window again and is refused by the frequency gate
C34_Witness ==
  \E u \in Users :
    /\ user_profiles[u].subscription_tier = "starter"
    /\ \E e \in OrchestratorEmails(u) : e.sent_at < now
    /\ task[u].status = "fulfilled"
    /\ task[u].value.error = "Frequency limit reached"
    /\ InWindow(u, now)

\* an earlier run of u stored insights and its insight email failed: rows of
\* u are stored that the current run did not write, and no insight email
\* went to u before this tick
FailedBefore(u) ==
  /\ \E r \in RowsOf(daily_insights, u) :
       \/ r.priority > Len(task[u].insights)
       \/ \A i \in 1..Len(task[u].trace) :
            task[u].trace[i] # "daily_insights.upsert"
  /\ \A e \in InsightEmails(u) : e.sent_at >= now

\* the results of the gate checks and of the collaborators that end a run
\* before its send, the frequency gate left out
OtherReasons ==
  {"User profile not found", "Inactive subscription",
   "Email preferences disabled", "Not scheduled for today",
   "No active GA4 connection", "Failed to refresh access token",
   "fetchMetrics threw", "No metrics available", "No insights generated",
   "upsert failed"}

Attempted(u) ==
  \E i \in 1..Len(task[u].trace) : task[u].trace[i] = "sendDailyInsights"

\* C35: a failed insight email does not suppress later delivery: the run
\* that fails writes nothing the gate reads, and a later run of the
\* subscriber that is inside the delivery window either ends at another
\* gate check or at a collaborator failure, or fetches, analyses, persists
\* and attempts the send again; the frequency gate never stops it.
C35_FailureDoesNotSuppress ==
  /\ [][\A u \in Users :
          (task[u].pc = "send" /\ task'[u].value.error = "email failed") =>
            /\ email_preferences' = email_preferences
            /\ user_profiles' = user_profiles
            /\ ga4_connections' = ga4_connections
            /\ user_email_logs' = user_email_logs]_vars
  /\ [](\A u \in Users :
          (FailedBefore(u) /\ task[u].status = "fulfilled") =>
            \/ Attempted(u)
            \/ task[u].value.error \in OtherReasons)

\* the run after a failed insight email has analysed a shorter list, stored
\* it and attempted the send again
C35_Witness ==
  \E u \in Users :
    /\ FailedBefore(u)
    /\ task[u].status = "fulfilled"
    /\ Attempted(u)
    /\ Len(task[u].insights) = 1
    /\ Cardinality(RowsOf(daily_insights, u)) = 3

SendCalls == {"sendDailyInsights", "sendNoInsightsEmail"}

\* the run of u has called neither of the two send functions
NothingSent(u) ==
  /\ EmailsOfRun(u) = {}
  /\ \A i \in 1..Len(task[u].trace) : task[u].trace[i] \notin SendCalls

\* C36: the orchestrator sends neither an insight email nor a "still
\* processing" notification to a subscriber whose subscription status is
\* not active or whose email preferences are missing or disabled, as the
\* run read them: every email went to an active subscriber with enabled
\* preferences, and a run that read an inactive status or found no enabled
\* preferences ended at that check without a send.
C36_NoEmailToInactive ==
  /\ \A e \in outbox :
       /\ user_profiles[e.to].subscription_status = "active"
       /\ email_preferences[e.to].enabled
  /\ \A u \in Users :
       (task[u].status = "fulfilled"
          /\ user_profiles[u].subscription_status # "active") =>
         /\ task[u].value.error \in
              {"User profile not found", "Inactive subscription"}
         /\ NothingSent(u)
  /\ \A u \in Users :
       task[u].value.error \in
         {"User profile not found", "Inactive subscription",
          "Email preferences disabled"} => NothingSent(u)

\* in one tick a subscriber with a canceled subscription and a subscriber
\* whose preferences were not found were both inside the delivery window,
\* and both runs have ended without an email
C36_Witness ==
  \E u, v \in Users :
    /\ user_profiles[u].subscription_status = "canceled"
    /\ InWindow(u, now)
    /\ task[u].value.error = "Inactive subscription"
    /\ task[v].value.error = "Email preferences disabled"
    /\ NothingSent(u) /\ NothingSent(v)


\* the calls one run of processDailyInsightsForUser can make
TaskCalls ==
  {"user_profiles.select", "email_preferences.select",
   "ga4_connections.select", "refreshAccessToken", "fetchMetrics",
   "analyzeMetrics", "sendNoInsightsEmail", "daily_insights.upsert",
   "sendDailyInsights", "user_email_logs.insert",
   "email_preferences.update"}

\* a run has no loop: it makes no more calls than there are calls to make
BoundedCalls(t) ==
  /\ SeqRange(t.trace) \subseteq TaskCalls
  /\ Len(t.trace) <= Cardinality(TaskCalls)

TickRunning == phase \in {"enumerate", "filter", "fanout"}

TickReturned ==
  /\ phase = "returned"
  /\ retval.path # NoReturn.path

\* allSettled has resolved before the summary is returned
SettledAtReturn ==
  retval.path = "summary" =>
    \A i \in 1..Len(usersToProcess) : Settled(task[usersToProcess[i]])

\* C37: every tick that starts returns a result object, with every task it
\* started settled after a bounded number of calls; a send through
\* retryEmailSend makes at most 3 attempts and at most 2 waits and returns.
C37_TickTerminates ==
  /\ [](\A u \in Users : BoundedCalls(task[u]))
  /\ []SettledAtReturn
  /\ [](Len(sendLog) <= maxRetries /\ Len(waits) <= maxRetries - 1)
  /\ TickRunning ~> TickReturned
  /\ (rpc # "idle") ~> (rpc = "returned")

\* a tick has returned its summary with the task of its subscriber settled
\* after more than one call, and the send has returned after three failed
\* attempts and two waits
C37_Witness ==
  /\ TickReturned
  /\ retval.path = "summary"
  /\ \E u \in Users : Settled(task[u]) /\ Len(task[u].trace) > 1
  /\ rpc = "returned"
  /\ Len(sendLog) = maxRetries
  /\ Len(waits) = maxRetries - 1

\* the rows the upsert of a run has just written
WrittenRows == BagToSet(daily_insights') \ BagToSet(daily_insights)

\* C38 as claimed: every row a run persists carries the values of the
\* insight of its rank: metric_value is the insight's currentValue and
\* baseline_value is the insight's expectedValue.
C38_RowCarriesValues ==
  [][\A u \in Users :
       (task[u].pc = "persist" /\ task'[u].pc = "send") =>
         \A r \in WrittenRows :
           /\ r.metric_value = task[u].insights[r.priority].currentValue
           /\ r.baseline_value = task[u].insights[r.priority].expectedValue]_vars

\* evaluating the window of u's preference row throws: split() of a null
\* delivery_time, or toLocaleString() with an unknown timezone
Throws(u) ==
  \/ email_preferences[u].delivery_time = NoTime
  \/ email_preferences[u].timezone = InvalidZone

RowInWindow(u) ==
  /\ ~Throws(u)
  /\ isWithinWindow(LocalHour(now, email_preferences[u].timezone),
                    email_preferences[u].delivery_time)

\* C39: shouldSendEmailNow answers false when the preferences lookup gives
\* an error or no row or the row is disabled, and true when the row is
\* there and enabled and evaluating its window throws; the filter loop keeps
\* exactly the subscribers for whom it answered true (kept only if enabled
\* and either throwing or inside the window), and every subscriber kept, and
\* no other, is processed.
C39_FailOpenFailClosed ==
  /\ [](\A u \in Users : \A lookup \in {"row", "error"} :
          /\ (lookup = "error" \/ ~email_preferences[u].enabled) =>
               ~shouldSendEmailNow(u, lookup)
          /\ (lookup = "row" /\ email_preferences[u].enabled /\ Throws(u)) =>
               shouldSendEmailNow(u, lookup))
  /\ [][(phase = "filter" /\ filterIdx' = filterIdx + 1) =>
          LET u == preferences[filterIdx]
          IN /\ usersToProcess' \in
                  {usersToProcess, Append(usersToProcess, u)}
             /\ usersToProcess' # usersToProcess =>
                  /\ email_preferences[u].enabled
                  /\ Throws(u) \/ RowInWindow(u)]_vars
  /\ [](phase = "fanout" =>
          \A u \in Users :
            u \in SeqRange(usersToProcess) <=> task[u].status # "none")

\* in the second tick a subscriber whose window evaluation throws has been
\* kept and has received an insight email, and the other, enabled and inside
\* the window, was skipped because the lookup gave an error
C39_Witness ==
  /\ now = StartHour + TickHours
  /\ phase = "fanout"
  /\ \E u, v \in Users :
       /\ Throws(u)
       /\ usersToProcess = <<u>>
       /\ \E e \in outbox :
            e.to = u /\ e.sent_at = now /\ e.email_type = "daily_insights"
       /\ email_preferences[v].enabled
       /\ RowInWindow(v)
       /\ v \in SeqRange(preferences)
       /\ task[v].status = "none"
====
